---- MODULE Spec2Model ----
(***************************************************************************)
(* async_executors: the uniform JoinHandle over backend task handles.      *)
(*                                                                         *)
(* A unit of work is spawned on a backend and observed through a handle.   *)
(* The handle is either the Cancellable Remote Pair of remote_handle.rs    *)
(* (a oneshot channel, the keep_running flag, catch_unwind) or a wrapper   *)
(* around a backend's native join handle (tokio, async-std, async-global,  *)
(* glommio).  The caller                                                   *)
(* side polls, detaches or drops the handle; the backend side polls the    *)
(* task.  Every step that another thread can interleave with is an action. *)
(***************************************************************************)
EXTENDS Naturals, FiniteSets, Sequences, TLC

\* ------------------------------------------------------------------ bounds
NumTasks == 2
NumValues == 2
MaxSuspend == 1
MaxCalls == 2
MaxClones == 3
NumBackends == 2
MaxSpawns == 2
NumCallers == 2
NumCpuSets == 2
MaxGuards == 2

Tasks == 1..NumTasks
Values == 1..NumValues

\* The handle variants: InnerJh of core/join_handle.rs and the wrappers of
\* runtime/tokio_jh.rs and runtime/async_std.rs.
RemoteVariants == {"RemoteHandle"}
TokioVariants == {"Tokio", "TokioJoinHandle"}
AsyncStdVariants == {"AsyncStd", "AsyncStdJoinHandle"}
\* InnerJh::AsyncGlobal and InnerJh::Glommio hold an Option<Task>: a task
\* handle of the async-task kind, which cancels its task when it is dropped.
TaskVariants == {"AsyncGlobal", "Glommio"}
NativeVariants == TokioVariants \cup AsyncStdVariants \cup TaskVariants
\* The variants that keep a detached AtomicBool, and those that keep an Option.
FlagVariants == {"Tokio", "AsyncStd"}
Variants == RemoteVariants \cup NativeVariants

\* What the unit of work does: return its value, panic, or await forever.
Kinds == {"value", "panic", "never"}

VARIABLES
    variant,       \* handle variant of the task, "none" before the spawn
    kind,          \* behaviour of the unit of work
    val,           \* the value the unit of work returns
    susp,          \* suspension points the unit of work still has before it ends
    work,          \* inner future: "new", "suspended", "done", "panicked", "dropped"
    completed,     \* how many times the body ran to its end (its marker)
    counter,       \* the shared counter the bodies increment
    sched,         \* the backend task is woken (in the run queue)
    rpc,           \* position of the backend's poll of the task
    slot,          \* the result cell: oneshot data, or the native join output
    txAlive,       \* Remote.tx is Some and the remote is alive (Sender not dropped)
    rxAlive,       \* the Receiver is alive
    txWaker,       \* Sender's tx_task holds the remote's waker
    rxWaker,       \* the join side registered its waker
    keep_running,  \* the shared AtomicBool of the Remote Pair
    hstate,        \* the handle: "none", "held", "forgetting", "gone"
    how,           \* how the handle went away: "", "dropped", "detached"
    some,          \* the handle's Option slot is Some
    detached,      \* the detached AtomicBool of InnerJh::Tokio / InnerJh::AsyncStd
    aborted,       \* the backend's abort was called for the task
    out,           \* outcome of the latest poll of the handle
    nReady,        \* polls of the handle that returned Ready (capped at 2)
    spawnRes,      \* what the spawn call did: "", "Ok", "SpawnRejected", "panic"
    attempts,      \* calls of the backend's spawn_obj made for the task
    rejected,      \* the backend's spawn_obj refused the task
    taskFault,     \* a panic left the task's poll and unwinds the backend's thread
    blocking,      \* the task is a spawn_blocking closure: "", "thread", "pool"
    thr,           \* the thread that runs the closure (0: none yet)
    threads,       \* threads created for blocking closures so far
    idle,          \* threads of tokio's blocking pool that wait for a closure
    bo,            \* the caller's thread is inside block_on: "out", "in"
    top,           \* the top-level unit of work passed to block_on
    boRet,         \* what the latest block_on call returned
    calls,         \* block_on calls made so far
    left,          \* the unfinished tasks the latest block_on left in the executor
    nestRet,       \* outcome of the latest block_on call made inside a unit of work
    clones,        \* live TokioTp values (each holds the Arc<Runtime>)
    rt,            \* the TokioTp runtime: "running", "shutdown"
    shutRes,       \* what the latest shutdown call returned
    hollow,        \* live TokioTp values whose exec field is None
    accepting,     \* per backend: its spawn_obj takes new work
    wrapped,       \* the backends' queues and the answer, calls made through wrappers
    direct,        \* the same calls made on the capabilities themselves
    via,           \* the wrapper the latest call went through
    sends,         \* calls of Sender::send the remote made (counted up to 2)
    yld,           \* per task: the future yield_now returned and its polls
    need_preempt,  \* glommio's scheduler wants the running task queue to yield
    jpc,           \* position of the awaiting task's poll of the handle
    awoken,        \* the task that awaits the handle is woken (in its run queue)
    cpu_set,       \* per calling thread: DEFAULT_CPU_SET (0: None, else Some(set))
    guards,        \* per calling thread: live CoreAffinityGuard values made on it
    affinity,      \* per calling thread: the CPU set the thread is bound to now
    guardRes,      \* per calling thread: outcome of its latest CoreAffinityGuard::new
    bindset        \* per blocking call: the CPU set moved into its thread's closure

vars == << variant, kind, val, susp, work, completed, counter, sched, rpc, slot,
           txAlive, rxAlive, txWaker, rxWaker, keep_running, hstate, how, some,
           detached, aborted, out, nReady, spawnRes, attempts, rejected,
           taskFault, blocking, thr, threads, idle, bo, top, boRet, calls, left,
           nestRet, clones, rt, shutRes, hollow, accepting, wrapped, direct, via, sends,
           yld, need_preempt, jpc, awoken, cpu_set, guards, affinity, guardRes,
           bindset >>

\* The thread-local default CPU set and what hangs on it.
affinityVars == << cpu_set, guards, affinity, guardRes, bindset >>

\* The state of the task that awaits a handle.
awaitVars == << jpc, awoken >>

\* The state of the yield capability.
yieldVars == << yld, need_preempt >>

\* What is recorded of the past of a run.
histVars == << sends >>

\* The state of the wrapped spawn capabilities.
wrapVars == << accepting, wrapped, direct, via >>

\* The state of the blocking bridge.
blockVars == << blocking, thr, threads, idle >>

\* The state of the executors: the block_on entry point and TokioTp's runtime.
execVars == << bo, top, boRet, calls, left, nestRet, clones, rt, shutRes, hollow >>

\* The state of the units of work, their tasks and their handles.
taskVars == << variant, kind, val, susp, work, completed, counter, sched, rpc, slot,
               txAlive, rxAlive, txWaker, rxWaker, keep_running, hstate, how, some,
               detached, aborted, out, nReady >>

\* The bookkeeping of the spawn call, which no later step touches.
spawnVars == << spawnRes, attempts, rejected >>

\* ------------------------------------------------------------ value shapes
Empty == [tag |-> "empty", v |-> 0]
Taken == [tag |-> "taken", v |-> 0]
OkMsg(v) == [tag |-> "ok", v |-> v]
PanicMsg == [tag |-> "panic", v |-> 0]
CancelledMsg == [tag |-> "cancelled", v |-> 0]
AbortedMsg == [tag |-> "aborted", v |-> 0]

NoPoll == [tag |-> "none", v |-> 0]
Pending == [tag |-> "pending", v |-> 0]
Ready(v) == [tag |-> "ready", v |-> v]
Fault == [tag |-> "fault", v |-> 0]

\* The top-level unit of work of a block_on call: what it does, its output,
\* the suspension points it still has.
NoTop == [kind |-> "none", v |-> 0, susp |-> 0]
Top(k, v, s) == [kind |-> k, v |-> v, susp |-> s]

\* Result<(), TokioTp> of a shutdown call; exec is the Option field of the
\* executor carried by Err.
NoShutdown == [tag |-> "none", exec |-> ""]
ShutdownOk == [tag |-> "Ok", exec |-> ""]
ShutdownErr(exec) == [tag |-> "Err", exec |-> exec]

\* The spawn capabilities a wrapper can point to, and the wrappers of
\* core/spawn.rs:99-197 and core/local_spawn_handle.rs:51-114.
Backends == 1..NumBackends
Wrappers == {"ref", "mut", "Box", "Rc", "Arc"}

\* What a sequence of calls left behind: the number of futures each backend
\* took, the latest call and its Result.
NoCalls == [q |-> [b \in Backends |-> 0], op |-> "none", res |-> ""]

\* The backends that implement YieldNowStatic / YieldNow, and those of them
\* that are built on glommio.
YieldBackends == {"TokioCt", "TokioTp", "Tokio", "GlommioCt", "Glommio"}
GlommioBackends == {"GlommioCt", "Glommio"}

\* The future returned by yield_now: its backend, the polls it got, the
\* outcome of the latest poll, and whether its task is in the run queue.
NoYield == [backend |-> "", polls |-> 0, out |-> "none", woken |-> FALSE]

\* The threads that call into the glommio backend, and the CPU sets a thread
\* can be bound to.
Callers == 1..NumCallers
CpuSets == 1..NumCpuSets

\* ------------------------------------------------------------------- Init
Init ==
    /\ variant = [t \in Tasks |-> "none"]
    /\ kind = [t \in Tasks |-> "value"]
    /\ val = [t \in Tasks |-> 1]
    /\ susp = [t \in Tasks |-> 0]
    /\ work = [t \in Tasks |-> "new"]
    /\ completed = [t \in Tasks |-> 0]
    /\ counter = 0
    /\ sched = [t \in Tasks |-> FALSE]
    /\ rpc = [t \in Tasks |-> "idle"]
    /\ slot = [t \in Tasks |-> Empty]
    /\ txAlive = [t \in Tasks |-> FALSE]
    /\ rxAlive = [t \in Tasks |-> FALSE]
    /\ txWaker = [t \in Tasks |-> FALSE]
    /\ rxWaker = [t \in Tasks |-> FALSE]
    /\ keep_running = [t \in Tasks |-> FALSE]
    /\ hstate = [t \in Tasks |-> "none"]
    /\ how = [t \in Tasks |-> ""]
    /\ some = [t \in Tasks |-> FALSE]
    /\ detached = [t \in Tasks |-> FALSE]
    /\ aborted = [t \in Tasks |-> FALSE]
    /\ out = [t \in Tasks |-> NoPoll]
    /\ nReady = [t \in Tasks |-> 0]
    /\ spawnRes = [t \in Tasks |-> ""]
    /\ attempts = [t \in Tasks |-> 0]
    /\ rejected = [t \in Tasks |-> FALSE]
    /\ taskFault = [t \in Tasks |-> FALSE]
    /\ blocking = [t \in Tasks |-> ""]
    /\ thr = [t \in Tasks |-> 0]
    /\ threads = 0
    /\ idle = {}
    /\ bo = "out"
    /\ top = NoTop
    /\ boRet = NoPoll
    /\ calls = 0
    /\ left = {}
    /\ nestRet = NoPoll
    /\ clones = 1
    /\ rt = "running"
    /\ shutRes = NoShutdown
    /\ hollow = 0
    /\ accepting = [b \in Backends |-> TRUE]
    /\ wrapped = NoCalls
    /\ direct = NoCalls
    /\ via = ""
    /\ sends = [t \in Tasks |-> 0]
    /\ yld = [t \in Tasks |-> NoYield]
    /\ need_preempt = FALSE
    /\ jpc = [t \in Tasks |-> "idle"]
    /\ awoken = [t \in Tasks |-> FALSE]
    /\ cpu_set = [c \in Callers |-> 0]
    /\ guards = [c \in Callers |-> 0]
    /\ affinity = [c \in Callers |-> 1]
    /\ guardRes = [c \in Callers |-> ""]
    /\ bindset = [t \in Tasks |-> 0]

\* Notation: the function f with its value at t replaced by x.
Set(f, t, x) == [f EXCEPT ![t] = x]

\* The output the inner future hands to the remote: catch_unwind turns a panic
\* into Err (remote_handle.rs:121, :105).
SendMsg(t) == IF work[t] = "panicked" THEN PanicMsg ELSE OkMsg(val[t])

\* ------------------------------------------------------------------ spawn
\* Mutant: the pair is made with keep_running already set.
remote_handle_StartsTrue(t) ==
    /\ slot' = Set(slot, t, Empty)
    /\ txAlive' = Set(txAlive, t, TRUE)
    /\ rxAlive' = Set(rxAlive, t, TRUE)
    /\ keep_running' = Set(keep_running, t, TRUE)

\* remote_handle(): a fresh oneshot channel and keep_running = false.
remote_handle(t) ==
    /\ slot' = Set(slot, t, Empty)
    /\ txAlive' = Set(txAlive, t, TRUE)
    /\ rxAlive' = Set(rxAlive, t, TRUE)
    /\ keep_running' = Set(keep_running, t, FALSE)

\* A native spawn: the backend task owns the join cell; no channel halves.
native_handle(t) ==
    /\ slot' = Set(slot, t, Empty)
    /\ txAlive' = Set(txAlive, t, FALSE)
    /\ rxAlive' = Set(rxAlive, t, FALSE)
    /\ keep_running' = Set(keep_running, t, FALSE)

\* Spawn::spawn_obj of a backend (core/spawn.rs:10-31): the work is taken, or
\* refused because the backend cannot accept new work.
spawn_obj(accept) == IF accept THEN "Ok" ELSE "SpawnRejected"

\* Mutant: spawn reports a failure although the backend took the work.
SpawnExt_spawn_AlwaysErr(accept) == "SpawnRejected"

\* SpawnExt::spawn / LocalSpawnExt::spawn_local (core/spawn.rs:228-233,
\* :291-296): the future is boxed and the backend's answer returned as it is.
SpawnExt_spawn(accept) == spawn_obj(accept)

\* spawn_with_handle / spawn_handle_obj: build the handle, hand the task to the
\* backend (which schedules it), return Ok(handle).  The work is not polled here.
\* The native spawn_handle_obj of this repository's backends always returns Ok.
SpawnTask(t, var, k, v, s) ==
    /\ variant[t] = "none"
    /\ variant' = Set(variant, t, var)
    /\ kind' = Set(kind, t, k)
    /\ val' = Set(val, t, v)
    /\ susp' = Set(susp, t, s)
    /\ IF var \in RemoteVariants THEN remote_handle(t) ELSE native_handle(t)
    /\ sched' = Set(sched, t, TRUE)
    /\ hstate' = Set(hstate, t, "held")
    /\ some' = Set(some, t, TRUE)
    /\ detached' = Set(detached, t, FALSE)
    /\ spawnRes' = Set(spawnRes, t, IF var \in RemoteVariants THEN SpawnExt_spawn(TRUE) ELSE "Ok")
    /\ attempts' = Set(attempts, t, attempts[t] + 1)
    /\ rejected' = Set(rejected, t, FALSE)
    /\ UNCHANGED << work, completed, counter, rpc, txWaker, rxWaker, how, aborted,
                    out, nReady >>
    /\ UNCHANGED << taskFault, blockVars >>
    /\ UNCHANGED execVars
    /\ UNCHANGED wrapVars
    /\ UNCHANGED yieldVars
    /\ UNCHANGED awaitVars
    /\ UNCHANGED affinityVars
    /\ UNCHANGED histVars

\* Mutant: after a refusal the spawn is tried again, and the second attempt
\* is taken and its handle returned.
SpawnRejected_Retry(t, k, v, s) ==
    /\ variant[t] = "none"
    /\ variant' = Set(variant, t, "RemoteHandle")
    /\ kind' = Set(kind, t, k)
    /\ val' = Set(val, t, v)
    /\ susp' = Set(susp, t, s)
    /\ remote_handle(t)
    /\ sched' = Set(sched, t, TRUE)
    /\ hstate' = Set(hstate, t, "held")
    /\ some' = Set(some, t, TRUE)
    /\ spawnRes' = Set(spawnRes, t, "Ok")
    /\ attempts' = Set(attempts, t, attempts[t] + 2)
    /\ rejected' = Set(rejected, t, TRUE)
    /\ UNCHANGED << work, completed, counter, rpc, txWaker, rxWaker, how, detached,
                    aborted, out, nReady >>
    /\ UNCHANGED << taskFault, blockVars >>
    /\ UNCHANGED execVars
    /\ UNCHANGED wrapVars
    /\ UNCHANGED yieldVars
    /\ UNCHANGED awaitVars
    /\ UNCHANGED affinityVars
    /\ UNCHANGED histVars

\* spawn_with_handle / spawn_local_with_handle (core/spawn.rs:253-261,
\* :316-326) when the backend refuses: remote_handle() built the pair, spawn
\* moved the remote into spawn_obj, which dropped it unpolled; the ? returns
\* the error and the handle goes out of scope.  No handle reaches the caller.
SpawnRejected(t, k, v, s) ==
    /\ variant[t] = "none"
    /\ variant' = Set(variant, t, "RemoteHandle")
    /\ kind' = Set(kind, t, k)
    /\ val' = Set(val, t, v)
    /\ susp' = Set(susp, t, s)
    /\ slot' = Set(slot, t, Empty)
    /\ keep_running' = Set(keep_running, t, FALSE)
    /\ txAlive' = Set(txAlive, t, FALSE)
    /\ rxAlive' = Set(rxAlive, t, FALSE)
    /\ work' = Set(work, t, "dropped")
    /\ rpc' = Set(rpc, t, "dropped")
    /\ spawnRes' = Set(spawnRes, t, SpawnExt_spawn(FALSE))
    /\ attempts' = Set(attempts, t, attempts[t] + 1)
    /\ rejected' = Set(rejected, t, TRUE)
    /\ UNCHANGED << completed, counter, sched, txWaker, rxWaker, hstate, how, some,
                    detached, aborted, out, nReady >>
    /\ UNCHANGED << taskFault, blockVars >>
    /\ UNCHANGED execVars
    /\ UNCHANGED wrapVars
    /\ UNCHANGED yieldVars
    /\ UNCHANGED awaitVars
    /\ UNCHANGED affinityVars
    /\ UNCHANGED histVars

\* Mutant: every adapter lets the native handle fall out of scope.
Adapter_discard_AlwaysDrop(var) == "drop"

\* What the adapter's spawn_obj / spawn_local_obj does with the native handle
\* its backend returned: `let _ = ...spawn(future)` for tokio and async-std
\* (runtime/tokio_ct.rs:115, :136, runtime/tokio_tp.rs:154,
\* runtime/async_std.rs:46, :56, :103), `.detach()` for async-global and
\* glommio (runtime/async_global.rs:46, :56, :95, runtime/glommio_ct.rs:45).
Adapter_discard(var) == IF var \in TaskVariants THEN "detach" ELSE "drop"

\* Whether the native handle cancels its task when it is discarded that way:
\* a Task of the async-task kind does when it is dropped; the join handles
\* of tokio and async-std detach on drop.
NativeHandle_cancels(var, d) == var \in TaskVariants /\ d = "drop"

\* Spawn::spawn_obj / LocalSpawn::spawn_local_obj of a backend adapter: the
\* future is handed to the backend, the native handle is discarded inside the
\* call, Ok(()) is returned.  No JoinHandle of this crate is made.
Adapter_spawn_obj(t, var, k, v, s) ==
    /\ variant[t] = "none"
    /\ var \in NativeVariants
    /\ variant' = Set(variant, t, var)
    /\ kind' = Set(kind, t, k)
    /\ val' = Set(val, t, v)
    /\ susp' = Set(susp, t, s)
    /\ native_handle(t)
    /\ sched' = Set(sched, t, TRUE)
    /\ aborted' = Set(aborted, t, NativeHandle_cancels(var, Adapter_discard(var)))
    /\ spawnRes' = Set(spawnRes, t, "Ok")
    /\ attempts' = Set(attempts, t, attempts[t] + 1)
    /\ rejected' = Set(rejected, t, FALSE)
    /\ UNCHANGED << work, completed, counter, rpc, txWaker, rxWaker, hstate, how,
                    some, detached, out, nReady >>
    /\ UNCHANGED << taskFault, blockVars >>
    /\ UNCHANGED execVars
    /\ UNCHANGED wrapVars
    /\ UNCHANGED histVars
    /\ UNCHANGED yieldVars
    /\ UNCHANGED awaitVars
    /\ UNCHANGED affinityVars

\* ------------------------------------------------- the unit of work itself
\* One poll of the inner future: "pending", "ready" or "panic".
InnerPoll(t) ==
    CASE kind[t] = "never" -> "pending"
      [] susp[t] > 0 -> "pending"
      [] kind[t] = "panic" -> "panic"
      [] OTHER -> "ready"

\* The effect of that poll on the unit of work: a suspension point is passed,
\* or the body runs to its end (sets its marker, increments the counter).
RunInner(t) ==
    /\ work' = Set(work, t, CASE InnerPoll(t) = "pending" -> "suspended"
                              [] InnerPoll(t) = "panic" -> "panicked"
                              [] OTHER -> "done")
    /\ susp' = Set(susp, t, IF kind[t] # "never" /\ susp[t] > 0 THEN susp[t] - 1 ELSE susp[t])
    /\ completed' = Set(completed, t, IF InnerPoll(t) = "ready" THEN completed[t] + 1 ELSE completed[t])
    /\ counter' = IF InnerPoll(t) = "ready" THEN counter + 1 ELSE counter

\* The event a suspended unit of work waits for arrives and wakes its task.
InnerWake(t) ==
    /\ variant[t] # "none"
    /\ work[t] = "suspended"
    /\ kind[t] # "never"
    /\ rpc[t] \notin {"resolved", "dropped"}
    /\ ~sched[t]
    /\ sched' = Set(sched, t, TRUE)
    /\ UNCHANGED << variant, kind, val, susp, work, completed, counter, rpc, slot,
                    txAlive, rxAlive, txWaker, rxWaker, keep_running, hstate, how,
                    some, detached, aborted, out, nReady >>
    /\ UNCHANGED << spawnVars, taskFault, blockVars >>
    /\ UNCHANGED execVars
    /\ UNCHANGED wrapVars
    /\ UNCHANGED yieldVars
    /\ UNCHANGED awaitVars
    /\ UNCHANGED affinityVars
    /\ UNCHANGED histVars

\* ------------------------------------------------------- Remote::poll
\* Mutant: poll_canceled is Ready whether or not the Receiver is gone.
poll_canceled_Spurious(t) == TRUE

\* Sender::poll_canceled: Ready once the Receiver is gone, else the remote's
\* waker is stored in tx_task.
poll_canceled(t) == ~rxAlive[t]

\* remote_handle.rs:98: the first statement of Remote::poll.
Remote_poll_begin(t) ==
    /\ variant[t] \in RemoteVariants
    /\ rpc[t] = "idle"
    /\ sched[t]
    /\ sched' = Set(sched, t, FALSE)
    /\ IF poll_canceled(t)
         THEN /\ rpc' = Set(rpc, t, "cancel_seen")
              /\ UNCHANGED txWaker
         ELSE /\ rpc' = Set(rpc, t, "run")
              /\ txWaker' = Set(txWaker, t, TRUE)
    /\ UNCHANGED << variant, kind, val, susp, work, completed, counter, slot,
                    txAlive, rxAlive, rxWaker, keep_running, hstate, how, some,
                    detached, aborted, out, nReady >>
    /\ UNCHANGED << spawnVars, taskFault, blockVars >>
    /\ UNCHANGED execVars
    /\ UNCHANGED wrapVars
    /\ UNCHANGED yieldVars
    /\ UNCHANGED awaitVars
    /\ UNCHANGED affinityVars
    /\ UNCHANGED histVars

\* Mutant: the cancellation check never bails out.
Remote_bail_Never(t) == FALSE

\* Mutant: the cancellation check ignores keep_running.
Remote_bail_Always(t) == TRUE

\* Mutant: the cancellation check reads keep_running the wrong way round.
Remote_bail_Inverted(t) == keep_running[t]

\* remote_handle.rs:99: cancelled, unless keep_running was set.
Remote_bail(t) == ~keep_running[t]

\* The remote resolved or was discarded: the backend drops it, which drops the
\* Sender (wakes nobody new: complete is set) and the inner future.
DropRemote(t) ==
    /\ txAlive' = Set(txAlive, t, FALSE)
    /\ work' = Set(work, t, IF work[t] \in {"new", "suspended"} THEN "dropped" ELSE work[t])

\* remote_handle.rs:99-102: load keep_running after poll_canceled was Ready.
Remote_poll_load(t) ==
    /\ variant[t] \in RemoteVariants
    /\ rpc[t] = "cancel_seen"
    /\ IF Remote_bail(t)
         THEN /\ rpc' = Set(rpc, t, "resolved")
              /\ DropRemote(t)
         ELSE /\ rpc' = Set(rpc, t, "run")
              /\ UNCHANGED << txAlive, work >>
    /\ UNCHANGED << variant, kind, val, susp, completed, counter, sched, slot,
                    rxAlive, txWaker, rxWaker, keep_running, hstate, how, some,
                    detached, aborted, out, nReady >>
    /\ UNCHANGED << spawnVars, taskFault, blockVars >>
    /\ UNCHANGED execVars
    /\ UNCHANGED wrapVars
    /\ UNCHANGED yieldVars
    /\ UNCHANGED awaitVars
    /\ UNCHANGED affinityVars
    /\ UNCHANGED histVars

\* Mutant: the ready! is missing, the remote sends whatever the poll returned.
Remote_poll_inner_NoReady(t) ==
    /\ variant[t] \in RemoteVariants
    /\ rpc[t] = "run"
    /\ blocking[t] = ""
    /\ RunInner(t)
    /\ rpc' = Set(rpc, t, "send")
    /\ UNCHANGED << variant, kind, val, sched, slot, txAlive, rxAlive, txWaker,
                    rxWaker, keep_running, hstate, how, some, detached, aborted,
                    out, nReady >>
    /\ UNCHANGED << spawnVars, taskFault, blockVars >>
    /\ UNCHANGED execVars
    /\ UNCHANGED wrapVars
    /\ UNCHANGED yieldVars
    /\ UNCHANGED awaitVars
    /\ UNCHANGED affinityVars
    /\ UNCHANGED histVars

\* Mutant: the cancellation is looked at once more just before the inner
\* poll, and a poll that finds the handle dropped gives up there.
Remote_poll_inner_Recheck(t) ==
    /\ variant[t] \in RemoteVariants
    /\ rpc[t] = "run"
    /\ blocking[t] = ""
    /\ IF poll_canceled(t) /\ Remote_bail(t)
         THEN /\ rpc' = Set(rpc, t, "resolved")
              /\ DropRemote(t)
              /\ UNCHANGED << susp, completed, counter >>
         ELSE /\ RunInner(t)
              /\ rpc' = Set(rpc, t, IF InnerPoll(t) = "pending" THEN "idle" ELSE "send")
              /\ UNCHANGED txAlive
    /\ UNCHANGED << variant, kind, val, sched, slot, rxAlive, txWaker,
                    rxWaker, keep_running, hstate, how, some, detached, aborted,
                    out, nReady >>
    /\ UNCHANGED << spawnVars, taskFault, blockVars >>
    /\ UNCHANGED execVars
    /\ UNCHANGED wrapVars
    /\ UNCHANGED yieldVars
    /\ UNCHANGED awaitVars
    /\ UNCHANGED affinityVars
    /\ UNCHANGED histVars

\* Mutant: the inner future is polled bare, a panic leaves the poll.
catch_unwind_None(r) == r

\* CatchUnwind<AssertUnwindSafe<Fut>>::poll (remote_handle.rs:76, :121) on the
\* outcome r of the inner poll: a panic is caught and becomes the output Err.
catch_unwind(r) == IF r = "panic" THEN "err" ELSE r

\* remote_handle.rs:105: poll the inner future under catch_unwind.  (The poll
\* of a spawn_blocking closure is Closure_start and Closure_end below.)  A
\* panic that is not caught unwinds Remote::poll: the backend's thread takes
\* the fault and the task, with its Sender, is gone.
Remote_poll_inner(t) ==
    /\ variant[t] \in RemoteVariants
    /\ rpc[t] = "run"
    /\ blocking[t] = ""
    /\ RunInner(t)
    /\ rpc' = Set(rpc, t, CASE catch_unwind(InnerPoll(t)) = "pending" -> "idle"
                            [] catch_unwind(InnerPoll(t)) = "panic" -> "dropped"
                            [] OTHER -> "send")
    /\ txAlive' = Set(txAlive, t, txAlive[t] /\ catch_unwind(InnerPoll(t)) # "panic")
    /\ taskFault' = Set(taskFault, t, taskFault[t] \/ catch_unwind(InnerPoll(t)) = "panic")
    /\ UNCHANGED << variant, kind, val, sched, slot, rxAlive, txWaker,
                    rxWaker, keep_running, hstate, how, some, detached, aborted,
                    out, nReady >>
    /\ UNCHANGED << spawnVars, blockVars >>
    /\ UNCHANGED execVars
    /\ UNCHANGED wrapVars
    /\ UNCHANGED yieldVars
    /\ UNCHANGED awaitVars
    /\ UNCHANGED affinityVars
    /\ UNCHANGED histVars

\* Mutant: the data is written to the cell whether or not a Receiver is left.
Sent_Regardless(t) == SendMsg(t)

\* Sender::send: the data reaches the cell only while the Receiver is alive; a
\* send error is ignored.
Sent(t) == IF rxAlive[t] THEN SendMsg(t) ELSE slot[t]

\* Sender::send returns Err(output) when the Receiver is gone.
Sender_send(t) == IF rxAlive[t] THEN "Ok" ELSE "Err"

\* Mutant: the result of send is unwrapped.
Remote_send_faults_Unwrap(t) == Sender_send(t) = "Err"

\* remote_handle.rs:109: drop(tx.send(output)): the result of send is
\* discarded, whatever it is.
Remote_send_faults(t) == FALSE

\* Mutant: the Sender is not taken and the remote does not resolve at its
\* first send; it sends the output once more.
Remote_poll_send_Twice(t) ==
    /\ variant[t] \in RemoteVariants
    /\ rpc[t] = "send"
    /\ slot' = Set(slot, t, Sent(t))
    /\ txAlive' = Set(txAlive, t, sends[t] = 0)
    /\ rpc' = Set(rpc, t, IF sends[t] = 0 THEN "send" ELSE "resolved")
    /\ sends' = Set(sends, t, IF sends[t] = 0 THEN 1 ELSE 2)
    /\ UNCHANGED << variant, kind, val, susp, work, completed, counter, sched,
                    rxAlive, txWaker, rxWaker, keep_running, hstate, how, some,
                    detached, aborted, out, nReady >>
    /\ UNCHANGED << spawnVars, taskFault, blockVars >>
    /\ UNCHANGED execVars
    /\ UNCHANGED wrapVars
    /\ UNCHANGED yieldVars
    /\ UNCHANGED awaitVars
    /\ UNCHANGED affinityVars

\* Mutant: the remote does not resolve after its send; it returns to the
\* inner poll, which runs the finished body again.
Remote_poll_send_Repoll(t) ==
    /\ variant[t] \in RemoteVariants
    /\ rpc[t] = "send"
    /\ slot' = Set(slot, t, Sent(t))
    /\ txAlive' = Set(txAlive, t, completed[t] < 2)
    /\ rpc' = Set(rpc, t, IF completed[t] < 2 THEN "run" ELSE "resolved")
    /\ sends' = Set(sends, t, IF sends[t] = 0 THEN 1 ELSE 2)
    /\ UNCHANGED << variant, kind, val, susp, work, completed, counter, sched,
                    rxAlive, txWaker, rxWaker, keep_running, hstate, how, some,
                    detached, aborted, out, nReady >>
    /\ UNCHANGED << spawnVars, taskFault, blockVars >>
    /\ UNCHANGED execVars
    /\ UNCHANGED wrapVars
    /\ UNCHANGED yieldVars
    /\ UNCHANGED awaitVars
    /\ UNCHANGED affinityVars

\* remote_handle.rs:109-110: tx.take().send(output), then Ready(()).
Remote_poll_send(t) ==
    /\ variant[t] \in RemoteVariants
    /\ rpc[t] = "send"
    /\ slot' = Set(slot, t, Sent(t))
    /\ txAlive' = Set(txAlive, t, FALSE)
    /\ rpc' = Set(rpc, t, "resolved")
    /\ UNCHANGED << variant, kind, val, susp, work, completed, counter, sched,
                    rxAlive, txWaker, rxWaker, keep_running, hstate, how, some,
                    detached, aborted, out, nReady >>
    /\ UNCHANGED << spawnVars, blockVars >>
    /\ taskFault' = Set(taskFault, t, taskFault[t] \/ Remote_send_faults(t))
    /\ sends' = Set(sends, t, IF sends[t] = 0 THEN 1 ELSE 2)
    /\ UNCHANGED execVars
    /\ UNCHANGED wrapVars
    /\ UNCHANGED yieldVars
    /\ UNCHANGED awaitVars
    /\ UNCHANGED affinityVars

\* The backend discards a task it has not finished (executor dropped or shut
\* down) while the task is not being polled.
BackendDiscard(t) ==
    /\ variant[t] \in RemoteVariants
    /\ rpc[t] = "idle"
    /\ rpc' = Set(rpc, t, "dropped")
    /\ DropRemote(t)
    /\ sched' = Set(sched, t, FALSE)
    /\ UNCHANGED << variant, kind, val, susp, completed, counter, slot, rxAlive,
                    txWaker, rxWaker, keep_running, hstate, how, some, detached,
                    aborted, out, nReady >>
    /\ UNCHANGED << spawnVars, taskFault, blockVars >>
    /\ UNCHANGED execVars
    /\ UNCHANGED wrapVars
    /\ UNCHANGED yieldVars
    /\ UNCHANGED awaitVars
    /\ UNCHANGED affinityVars
    /\ UNCHANGED histVars

\* ------------------------------------------------- native backend tasks
\* One scheduling turn of a tokio task: an aborted task is cancelled (its
\* future dropped, the join cell gets Err(cancelled)); otherwise the future is
\* polled, tokio catching a panic into the join cell.
TokioTask_poll(t) ==
    /\ variant[t] \in TokioVariants
    /\ rpc[t] = "idle"
    /\ sched[t]
    /\ sched' = Set(sched, t, FALSE)
    /\ IF aborted[t]
         THEN /\ slot' = Set(slot, t, CancelledMsg)
              /\ rpc' = Set(rpc, t, "resolved")
              /\ work' = Set(work, t, "dropped")
              /\ UNCHANGED << susp, completed, counter >>
         ELSE /\ RunInner(t)
              /\ slot' = Set(slot, t, CASE InnerPoll(t) = "ready" -> OkMsg(val[t])
                                        [] InnerPoll(t) = "panic" -> PanicMsg
                                        [] OTHER -> slot[t])
              /\ rpc' = Set(rpc, t, IF InnerPoll(t) = "pending" THEN "idle" ELSE "resolved")
    /\ UNCHANGED << variant, kind, val, txAlive, rxAlive, txWaker, rxWaker,
                    keep_running, hstate, how, some, detached, aborted, out, nReady >>
    /\ UNCHANGED << spawnVars, taskFault, blockVars >>
    /\ UNCHANGED execVars
    /\ UNCHANGED wrapVars
    /\ UNCHANGED yieldVars
    /\ UNCHANGED awaitVars
    /\ UNCHANGED affinityVars
    /\ UNCHANGED histVars

\* tokio catches a panic of the task; async-std does not, and the executor
\* thread unwinds as well (core/join_handle.rs:47-50); neither do the
\* async-task based executors.
Unwinds(t) == ~aborted[t] /\ InnerPoll(t) = "panic"

\* One scheduling turn of an async-std task running Abortable<Fut>
\* (runtime/async_std.rs:69-71): Err(Aborted) once abort() was called, else the
\* future is polled; a panic closes the task without an output.
AsyncStdTask_poll(t) ==
    /\ variant[t] \in AsyncStdVariants
    /\ rpc[t] = "idle"
    /\ sched[t]
    /\ sched' = Set(sched, t, FALSE)
    /\ IF aborted[t]
         THEN /\ slot' = Set(slot, t, AbortedMsg)
              /\ rpc' = Set(rpc, t, "resolved")
              /\ work' = Set(work, t, "dropped")
              /\ UNCHANGED << susp, completed, counter >>
         ELSE /\ RunInner(t)
              /\ slot' = Set(slot, t, CASE InnerPoll(t) = "ready" -> OkMsg(val[t])
                                        [] InnerPoll(t) = "panic" -> PanicMsg
                                        [] OTHER -> slot[t])
              /\ rpc' = Set(rpc, t, IF InnerPoll(t) = "pending" THEN "idle" ELSE "resolved")
    /\ UNCHANGED << variant, kind, val, txAlive, rxAlive, txWaker, rxWaker,
                    keep_running, hstate, how, some, detached, aborted, out, nReady >>
    /\ UNCHANGED << spawnVars, blockVars >>
    /\ taskFault' = Set(taskFault, t, taskFault[t] \/ Unwinds(t))
    /\ UNCHANGED execVars
    /\ UNCHANGED wrapVars
    /\ UNCHANGED yieldVars
    /\ UNCHANGED awaitVars
    /\ UNCHANGED affinityVars
    /\ UNCHANGED histVars

\* One scheduling turn of an async-global or glommio task: a cancelled task
\* is closed and its future dropped; otherwise the future is polled, and a
\* panic closes the task without an output.
AsyncTask_poll(t) ==
    /\ variant[t] \in TaskVariants
    /\ rpc[t] = "idle"
    /\ sched[t]
    /\ sched' = Set(sched, t, FALSE)
    /\ IF aborted[t]
         THEN /\ slot' = Set(slot, t, CancelledMsg)
              /\ rpc' = Set(rpc, t, "resolved")
              /\ work' = Set(work, t, "dropped")
              /\ UNCHANGED << susp, completed, counter >>
         ELSE /\ RunInner(t)
              /\ slot' = Set(slot, t, CASE InnerPoll(t) = "ready" -> OkMsg(val[t])
                                        [] InnerPoll(t) = "panic" -> PanicMsg
                                        [] OTHER -> slot[t])
              /\ rpc' = Set(rpc, t, IF InnerPoll(t) = "pending" THEN "idle" ELSE "resolved")
    /\ UNCHANGED << variant, kind, val, txAlive, rxAlive, txWaker, rxWaker,
                    keep_running, hstate, how, some, detached, aborted, out, nReady >>
    /\ UNCHANGED << spawnVars, blockVars >>
    /\ taskFault' = Set(taskFault, t, taskFault[t] \/ Unwinds(t))
    /\ UNCHANGED execVars
    /\ UNCHANGED wrapVars
    /\ UNCHANGED yieldVars
    /\ UNCHANGED awaitVars
    /\ UNCHANGED affinityVars
    /\ UNCHANGED histVars

\* The tokio runtime is shut down or dropped: an unfinished task is dropped and
\* its join cell gets Err(cancelled).
RuntimeShutdown(t) ==
    /\ variant[t] \in TokioVariants
    /\ rpc[t] = "idle"
    /\ rpc' = Set(rpc, t, "dropped")
    /\ slot' = Set(slot, t, CancelledMsg)
    /\ work' = Set(work, t, IF work[t] \in {"new", "suspended"} THEN "dropped" ELSE work[t])
    /\ sched' = Set(sched, t, FALSE)
    /\ UNCHANGED << variant, kind, val, susp, completed, counter, txAlive, rxAlive,
                    txWaker, rxWaker, keep_running, hstate, how, some, detached,
                    aborted, out, nReady >>
    /\ UNCHANGED << spawnVars, taskFault, blockVars >>
    /\ UNCHANGED execVars
    /\ UNCHANGED wrapVars
    /\ UNCHANGED yieldVars
    /\ UNCHANGED awaitVars
    /\ UNCHANGED affinityVars
    /\ UNCHANGED histVars

\* ------------------------------------------------------ the blocking bridge
\* A closure has no suspension point: it returns, panics, or never returns.
\* Mutant: the thread created last is used again.
NewThread_Reuse == IF threads = 0 THEN 1 ELSE threads

\* std::thread::spawn and a pool that finds no idle thread start a new thread.
NewThread == threads + 1

\* GlommioCt::spawn_blocking (runtime/glommio_ct.rs:119-125):
\* async { func() }.remote_handle(), then std::thread::spawn of a thread that
\* runs block_on(remote) and nothing else.  Glommio::spawn_blocking
\* (runtime/glommio_static.rs:70-80) does the same once it has read the
\* default CPU set of the calling thread; that read and the thread's bind are
\* in Glommio_static_spawn_blocking and Thread_bind below.
Glommio_spawn_blocking(t, k, v) ==
    /\ variant[t] = "none"
    /\ variant' = Set(variant, t, "RemoteHandle")
    /\ kind' = Set(kind, t, k)
    /\ val' = Set(val, t, v)
    /\ susp' = Set(susp, t, 0)
    /\ remote_handle(t)
    /\ sched' = Set(sched, t, TRUE)
    /\ hstate' = Set(hstate, t, "held")
    /\ some' = Set(some, t, TRUE)
    /\ detached' = Set(detached, t, FALSE)
    /\ spawnRes' = Set(spawnRes, t, "Ok")
    /\ blocking' = Set(blocking, t, "thread")
    /\ thr' = Set(thr, t, NewThread)
    /\ threads' = NewThread
    /\ UNCHANGED << work, completed, counter, rpc, txWaker, rxWaker, how, aborted,
                    out, nReady, attempts, rejected, taskFault, idle >>
    /\ UNCHANGED execVars
    /\ UNCHANGED wrapVars
    /\ UNCHANGED yieldVars
    /\ UNCHANGED awaitVars
    /\ UNCHANGED affinityVars
    /\ UNCHANGED histVars

\* TokioCt::spawn_blocking_obj / Tokio::spawn_blocking
\* (runtime/tokio_ct.rs:197-203, runtime/tokio_static.rs:60-65): the closure is
\* queued on the runtime's blocking pool and a TokioJoinHandle returned.
Tokio_spawn_blocking(t, k, v) ==
    /\ variant[t] = "none"
    /\ variant' = Set(variant, t, "TokioJoinHandle")
    /\ kind' = Set(kind, t, k)
    /\ val' = Set(val, t, v)
    /\ susp' = Set(susp, t, 0)
    /\ native_handle(t)
    /\ sched' = Set(sched, t, TRUE)
    /\ hstate' = Set(hstate, t, "held")
    /\ some' = Set(some, t, TRUE)
    /\ detached' = Set(detached, t, FALSE)
    /\ spawnRes' = Set(spawnRes, t, "Ok")
    /\ blocking' = Set(blocking, t, "pool")
    /\ UNCHANGED << work, completed, counter, rpc, txWaker, rxWaker, how, aborted,
                    out, nReady, attempts, rejected, taskFault, thr, threads, idle >>
    /\ UNCHANGED execVars
    /\ UNCHANGED wrapVars
    /\ UNCHANGED yieldVars
    /\ UNCHANGED awaitVars
    /\ UNCHANGED affinityVars
    /\ UNCHANGED histVars

\* The inner poll of the remote of a closure, remote_handle.rs:105 over
\* async { func() }: the closure is entered ...
Closure_start(t) ==
    /\ variant[t] \in RemoteVariants
    /\ blocking[t] = "thread"
    /\ rpc[t] = "run"
    /\ work' = Set(work, t, "running")
    /\ rpc' = Set(rpc, t, "closure")
    /\ UNCHANGED << variant, kind, val, susp, completed, counter, sched, slot,
                    txAlive, rxAlive, txWaker, rxWaker, keep_running, hstate, how,
                    some, detached, aborted, out, nReady >>
    /\ UNCHANGED << spawnVars, taskFault, blockVars >>
    /\ UNCHANGED execVars
    /\ UNCHANGED wrapVars
    /\ UNCHANGED yieldVars
    /\ UNCHANGED awaitVars
    /\ UNCHANGED affinityVars
    /\ UNCHANGED histVars

\* ... and returns or panics; nothing looks at the handle in between.
Closure_end(t) ==
    /\ variant[t] \in RemoteVariants
    /\ blocking[t] = "thread"
    /\ rpc[t] = "closure"
    /\ kind[t] # "never"
    /\ RunInner(t)
    /\ rpc' = Set(rpc, t, "send")
    /\ UNCHANGED << variant, kind, val, sched, slot, txAlive, rxAlive, txWaker,
                    rxWaker, keep_running, hstate, how, some, detached, aborted,
                    out, nReady >>
    /\ UNCHANGED << spawnVars, taskFault, blockVars >>
    /\ UNCHANGED execVars
    /\ UNCHANGED wrapVars
    /\ UNCHANGED yieldVars
    /\ UNCHANGED awaitVars
    /\ UNCHANGED affinityVars
    /\ UNCHANGED histVars

\* A thread of tokio's blocking pool takes the queued closure: an idle thread
\* of the pool, or a new one (core/spawn_blocking.rs:3, "maybe in a thread
\* pool(tokio)").  A closure aborted before it started is cancelled.
TokioBlocking_start(t) ==
    /\ variant[t] \in TokioVariants
    /\ blocking[t] = "pool"
    /\ rpc[t] = "idle"
    /\ sched[t]
    /\ sched' = Set(sched, t, FALSE)
    /\ IF aborted[t]
         THEN /\ slot' = Set(slot, t, CancelledMsg)
              /\ rpc' = Set(rpc, t, "resolved")
              /\ work' = Set(work, t, "dropped")
              /\ UNCHANGED << thr, threads, idle >>
         ELSE /\ \E th \in idle \cup {NewThread} :
                    /\ thr' = Set(thr, t, th)
                    /\ idle' = idle \ {th}
                    /\ threads' = IF th = NewThread THEN NewThread ELSE threads
              /\ work' = Set(work, t, "running")
              /\ rpc' = Set(rpc, t, "closure")
              /\ UNCHANGED slot
    /\ UNCHANGED << variant, kind, val, susp, completed, counter, txAlive, rxAlive,
                    txWaker, rxWaker, keep_running, hstate, how, some, detached,
                    aborted, out, nReady, blocking >>
    /\ UNCHANGED << spawnVars, taskFault >>
    /\ UNCHANGED execVars
    /\ UNCHANGED wrapVars
    /\ UNCHANGED yieldVars
    /\ UNCHANGED awaitVars
    /\ UNCHANGED affinityVars
    /\ UNCHANGED histVars

\* Mutant: the pool looks at the abort flag when the closure ends and drops
\* its result as if the closure had been stopped.
TokioBlocking_end_Abortable(t) ==
    /\ variant[t] \in TokioVariants
    /\ blocking[t] = "pool"
    /\ rpc[t] = "closure"
    /\ kind[t] # "never"
    /\ IF aborted[t]
         THEN /\ work' = Set(work, t, "dropped")
              /\ slot' = Set(slot, t, CancelledMsg)
              /\ UNCHANGED << susp, completed, counter >>
         ELSE /\ RunInner(t)
              /\ slot' = Set(slot, t, IF InnerPoll(t) = "panic" THEN PanicMsg ELSE OkMsg(val[t]))
    /\ rpc' = Set(rpc, t, "resolved")
    /\ idle' = idle \cup {thr[t]}
    /\ UNCHANGED << variant, kind, val, sched, txAlive, rxAlive, txWaker, rxWaker,
                    keep_running, hstate, how, some, detached, aborted, out, nReady,
                    blocking, thr, threads >>
    /\ UNCHANGED << spawnVars, taskFault >>
    /\ UNCHANGED execVars
    /\ UNCHANGED wrapVars
    /\ UNCHANGED yieldVars
    /\ UNCHANGED awaitVars
    /\ UNCHANGED affinityVars
    /\ UNCHANGED histVars

\* The closure returns or panics on its pool thread: abort has no effect on a
\* blocking task that has started.  The join cell is filled and the thread
\* goes back to the pool.
TokioBlocking_end(t) ==
    /\ variant[t] \in TokioVariants
    /\ blocking[t] = "pool"
    /\ rpc[t] = "closure"
    /\ kind[t] # "never"
    /\ RunInner(t)
    /\ slot' = Set(slot, t, IF InnerPoll(t) = "panic" THEN PanicMsg ELSE OkMsg(val[t]))
    /\ rpc' = Set(rpc, t, "resolved")
    /\ idle' = idle \cup {thr[t]}
    /\ UNCHANGED << variant, kind, val, sched, txAlive, rxAlive, txWaker, rxWaker,
                    keep_running, hstate, how, some, detached, aborted, out, nReady,
                    blocking, thr, threads >>
    /\ UNCHANGED << spawnVars, taskFault >>
    /\ UNCHANGED execVars
    /\ UNCHANGED wrapVars
    /\ UNCHANGED yieldVars
    /\ UNCHANGED awaitVars
    /\ UNCHANGED affinityVars
    /\ UNCHANGED histVars

\* ------------------------------------------------------ the CPU-set guard
\* DEFAULT_CPU_SET is a thread_local Cell<Option<CpuSet>>
\* (runtime/glommio_static.rs:105-107): each thread has its own, None at first.
\* CoreAffinityGuard is not Send (PhantomData<Rc<()>>, :126-128): it is
\* dropped on the thread that made it.

\* nix::unistd::Pid::this() (runtime/glommio_static.rs:101, :109) is the id
\* of the process; as the pid argument of sched_getaffinity and
\* sched_setaffinity it names the thread with that id, the process's main
\* thread, whichever thread makes the call.
Pid_this == 1

\* Mutant: a default that is already set is overwritten instead of refused.
set_default_cpu_Overwrite(stored, ga, current) ==
    IF ga = "Err" THEN [res |-> "Err", set |-> stored]
    ELSE [res |-> "Ok", set |-> current]

\* set_default_cpu (runtime/glommio_static.rs:108-119) on the stored default,
\* the outcome ga of sched_getaffinity and the CPU set it read: the
\* error of the system call is returned by `?`; a default that is Some
\* panics; else the current set is stored.  The result and the stored value.
set_default_cpu(stored, ga, current) ==
    IF ga = "Err" THEN [res |-> "Err", set |-> stored]
    ELSE IF stored # 0 THEN [res |-> "panic", set |-> stored]
    ELSE [res |-> "Ok", set |-> current]

\* clean_default_cpu (runtime/glommio_static.rs:121-124): x.set(None).
clean_default_cpu(stored) == 0

\* CoreAffinityGuard::new (runtime/glommio_static.rs:131-136) on thread c:
\* set_default_cpu()?, then Ok(Self); a guard exists only after Ok.
CoreAffinityGuard_new(c) ==
    /\ guards[c] < MaxGuards
    /\ \E ga \in {"Ok", "Err"} :
          /\ cpu_set' = Set(cpu_set, c, set_default_cpu(cpu_set[c], ga, affinity[Pid_this]).set)
          /\ guardRes' = Set(guardRes, c, set_default_cpu(cpu_set[c], ga, affinity[Pid_this]).res)
          /\ guards' = Set(guards, c,
                           IF set_default_cpu(cpu_set[c], ga, affinity[Pid_this]).res = "Ok"
                             THEN guards[c] + 1 ELSE guards[c])
    /\ UNCHANGED << affinity, bindset >>
    /\ UNCHANGED << taskVars, spawnVars, taskFault, blockVars, execVars, wrapVars,
                    histVars, yieldVars, awaitVars >>

\* <CoreAffinityGuard as Drop>::drop (runtime/glommio_static.rs:138-142) on
\* the thread c that made the guard.
CoreAffinityGuard_drop(c) ==
    /\ guards[c] >= 1
    /\ guards' = Set(guards, c, guards[c] - 1)
    /\ cpu_set' = Set(cpu_set, c, clean_default_cpu(cpu_set[c]))
    /\ UNCHANGED << affinity, guardRes, bindset >>
    /\ UNCHANGED << taskVars, spawnVars, taskFault, blockVars, execVars, wrapVars,
                    histVars, yieldVars, awaitVars >>

\* A thread is bound to another CPU set (the executor that runs on it pins
\* it): sched_getaffinity reads what is current at the call.
Thread_rebind(c) ==
    /\ \E s \in CpuSets \ {affinity[c]} : affinity' = Set(affinity, c, s)
    /\ UNCHANGED << cpu_set, guards, guardRes, bindset >>
    /\ UNCHANGED << taskVars, spawnVars, taskFault, blockVars, execVars, wrapVars,
                    histVars, yieldVars, awaitVars >>

\* Mutant: a missing default is replaced by a default value instead of a panic.
DEFAULT_CPU_SET_unwrap_OrDefault(stored) == "Some"

\* DEFAULT_CPU_SET.with(|x| x.clone().into_inner()).unwrap()
\* (runtime/glommio_static.rs:74): panics on None.
DEFAULT_CPU_SET_unwrap(stored) == IF stored = 0 THEN "panic" ELSE "Some"

\* Glommio::spawn_blocking (runtime/glommio_static.rs:70-80) called on thread
\* c: the Remote Pair is made first; the unwrap of the thread's default CPU
\* set then panics on None, and the unwinding drops remote and handle: no
\* thread, no handle, the closure dropped unexecuted.  Else a thread is
\* started with the CPU set and the remote moved into it, and Ok(handle)
\* returned.
Glommio_static_spawn_blocking(t, c, k) ==
    /\ variant[t] = "none"
    /\ variant' = Set(variant, t, "RemoteHandle")
    /\ kind' = Set(kind, t, k)
    /\ val' = Set(val, t, 1)
    /\ susp' = Set(susp, t, 0)
    /\ slot' = Set(slot, t, Empty)
    /\ keep_running' = Set(keep_running, t, FALSE)
    /\ IF DEFAULT_CPU_SET_unwrap(cpu_set[c]) = "panic"
         THEN /\ txAlive' = Set(txAlive, t, FALSE)
              /\ rxAlive' = Set(rxAlive, t, FALSE)
              /\ work' = Set(work, t, "dropped")
              /\ rpc' = Set(rpc, t, "dropped")
              /\ spawnRes' = Set(spawnRes, t, "panic")
              /\ UNCHANGED << hstate, some, blocking, thr, threads, bindset >>
         ELSE /\ txAlive' = Set(txAlive, t, TRUE)
              /\ rxAlive' = Set(rxAlive, t, TRUE)
              /\ hstate' = Set(hstate, t, "held")
              /\ some' = Set(some, t, TRUE)
              /\ spawnRes' = Set(spawnRes, t, "Ok")
              /\ blocking' = Set(blocking, t, "thread")
              /\ thr' = Set(thr, t, NewThread)
              /\ threads' = NewThread
              /\ bindset' = Set(bindset, t, cpu_set[c])
              /\ UNCHANGED << work, rpc >>
    /\ UNCHANGED << completed, counter, sched, txWaker, rxWaker, how, detached,
                    aborted, out, nReady, attempts, rejected, taskFault, idle >>
    /\ UNCHANGED << cpu_set, guards, affinity, guardRes >>
    /\ UNCHANGED << execVars, wrapVars, histVars, yieldVars, awaitVars >>

\* The first statement of the new thread (runtime/glommio_static.rs:76):
\* bind_to_cpu_set(cpu_set).expect(..).  sched_setaffinity is called with
\* Pid::this(); when it fails the thread panics and the remote is dropped
\* unpolled.  After it the thread runs block_on(remote).
Thread_bind(t) ==
    /\ variant[t] \in RemoteVariants
    /\ blocking[t] = "thread"
    /\ bindset[t] # 0
    /\ rpc[t] = "idle"
    /\ ~sched[t]
    /\ \E ok \in BOOLEAN :
          IF ok
            THEN /\ affinity' = Set(affinity, Pid_this, bindset[t])
                 /\ sched' = Set(sched, t, TRUE)
                 /\ UNCHANGED << rpc, txAlive, work, taskFault >>
            ELSE /\ rpc' = Set(rpc, t, "dropped")
                 /\ DropRemote(t)
                 /\ taskFault' = Set(taskFault, t, TRUE)
                 /\ UNCHANGED << affinity, sched >>
    /\ UNCHANGED << variant, kind, val, susp, completed, counter, slot, rxAlive,
                    txWaker, rxWaker, keep_running, hstate, how, some, detached,
                    aborted, out, nReady >>
    /\ UNCHANGED << cpu_set, guards, guardRes, bindset >>
    /\ UNCHANGED << spawnVars, blockVars, execVars, wrapVars, histVars, yieldVars,
                    awaitVars >>

\* ----------------------------------------------------------------- block_on
\* TokioCt::block_on (runtime/tokio_ct.rs:100-102, tokio_ct.rs:95-97) and
\* GlommioCt::block_on (runtime/glommio_ct.rs:32-34) hand the unit of work to
\* the backend's own entry point, which polls it on the calling thread, runs
\* the spawned tasks in between, and returns its output once it is Ready.

\* Mutant: the entry point takes the first poll for the last.
TopPoll_Early == IF top.kind = "panic" THEN "panic" ELSE "ready"

\* One poll of the top-level unit of work.
TopPoll ==
    CASE top.kind = "never" -> "pending"
      [] top.susp > 0 -> "pending"
      [] top.kind = "panic" -> "panic"
      [] OTHER -> "ready"

\* The spawned tasks that have not finished: they stay in the executor.
Unfinished == {t \in Tasks : variant[t] # "none" /\ rpc[t] = "idle"}

\* block_on is called from outside every unit of work.
block_on_enter(k, v, s) ==
    /\ bo = "out"
    /\ calls < MaxCalls
    /\ bo' = "in"
    /\ top' = Top(k, v, s)
    /\ boRet' = NoPoll
    /\ calls' = calls + 1
    /\ UNCHANGED << left, nestRet, clones, rt, shutRes, hollow >>
    /\ UNCHANGED wrapVars
    /\ UNCHANGED yieldVars
    /\ UNCHANGED awaitVars
    /\ UNCHANGED affinityVars
    /\ UNCHANGED histVars
    /\ UNCHANGED << taskVars, spawnVars, taskFault, blockVars >>

\* The entry point polls the top-level unit of work: it passes a suspension
\* point, or resolves, and then block_on returns its output; a panic of the
\* unit of work unwinds the caller of block_on.
block_on_poll ==
    /\ bo = "in"
    /\ CASE TopPoll = "pending" ->
               /\ top' = [top EXCEPT !.susp = IF top.kind # "never" /\ @ > 0 THEN @ - 1 ELSE @]
               /\ UNCHANGED << bo, boRet, left >>
         [] TopPoll = "panic" ->
               /\ bo' = "out"
               /\ boRet' = Fault
               /\ left' = Unfinished
               /\ UNCHANGED top
         [] OTHER ->
               /\ bo' = "out"
               /\ boRet' = Ready(top.v)
               /\ left' = Unfinished
               /\ UNCHANGED top
    /\ UNCHANGED << calls, nestRet, clones, rt, shutRes, hollow >>
    /\ UNCHANGED wrapVars
    /\ UNCHANGED yieldVars
    /\ UNCHANGED awaitVars
    /\ UNCHANGED affinityVars
    /\ UNCHANGED histVars
    /\ UNCHANGED << taskVars, spawnVars, taskFault, blockVars >>

\* Mutant: a nested call runs its unit of work and returns a value.
Nested_block_on_Runs == Ready(1)

\* runtime/tokio_ct.rs:96-99: block_on panics if it is called from an async
\* context, including a nested call.
Nested_block_on == Fault

\* The top-level unit of work calls block_on on the backend it runs on; the
\* panic unwinds the unit of work and with it the outer block_on.
block_on_nested_top ==
    /\ bo = "in"
    /\ nestRet' = Nested_block_on
    /\ IF Nested_block_on = Fault
         THEN /\ bo' = "out"
              /\ boRet' = Fault
              /\ left' = Unfinished
         ELSE UNCHANGED << bo, boRet, left >>
    /\ UNCHANGED << top, calls, clones, rt, shutRes, hollow >>
    /\ UNCHANGED wrapVars
    /\ UNCHANGED yieldVars
    /\ UNCHANGED awaitVars
    /\ UNCHANGED affinityVars
    /\ UNCHANGED histVars
    /\ UNCHANGED << taskVars, spawnVars, taskFault, blockVars >>

\* A spawned task calls block_on during its poll; the panic ends the task, and
\* tokio stores it in the join cell.
block_on_nested_task(t) ==
    /\ bo = "in"
    /\ variant[t] \in TokioVariants
    /\ rpc[t] = "idle"
    /\ sched[t]
    /\ ~aborted[t]
    /\ sched' = Set(sched, t, FALSE)
    /\ nestRet' = Nested_block_on
    /\ IF Nested_block_on = Fault
         THEN /\ work' = Set(work, t, "panicked")
              /\ slot' = Set(slot, t, PanicMsg)
              /\ rpc' = Set(rpc, t, "resolved")
         ELSE UNCHANGED << work, slot, rpc >>
    /\ UNCHANGED << variant, kind, val, susp, completed, counter, txAlive, rxAlive,
                    txWaker, rxWaker, keep_running, hstate, how, some, detached,
                    aborted, out, nReady >>
    /\ UNCHANGED << bo, top, boRet, calls, left, clones, rt, shutRes, hollow >>
    /\ UNCHANGED wrapVars
    /\ UNCHANGED yieldVars
    /\ UNCHANGED awaitVars
    /\ UNCHANGED affinityVars
    /\ UNCHANGED histVars
    /\ UNCHANGED << spawnVars, taskFault, blockVars >>

\* Mutant: the runtime polls its tasks whether or not block_on is running.
TokioCt_task_poll_Anytime(t) == TokioTask_poll(t)

\* runtime/tokio_ct.rs:87-89: the tasks of the executor are polled by the
\* thread that is inside block_on, and by nothing else.
TokioCt_task_poll(t) ==
    /\ bo = "in"
    /\ TokioTask_poll(t)

\* ------------------------------------------------------------------ TokioTp
\* TokioTp { exec: Option<Arc<Runtime>> } (runtime/tokio_tp.rs:87-89): every
\* clone of the executor holds one strong reference to the runtime.

\* Mutant: the unwrap succeeds whatever the number of references.
try_unwrap_Always == TRUE

\* Arc::try_unwrap(arc) (runtime/tokio_tp.rs:114, :136): Ok only for the one
\* and only strong reference.
try_unwrap == clones = 1

\* The runtime shuts down: every task it has not finished is dropped and its
\* join cell gets Err(cancelled).
Discarded(t) == variant[t] \in TokioVariants /\ rpc[t] = "idle"

ShutdownAll ==
    /\ rpc' = [t \in Tasks |-> IF Discarded(t) THEN "dropped" ELSE rpc[t]]
    /\ slot' = [t \in Tasks |-> IF Discarded(t) THEN CancelledMsg ELSE slot[t]]
    /\ work' = [t \in Tasks |-> IF Discarded(t) /\ work[t] \in {"new", "suspended"}
                                   THEN "dropped" ELSE work[t]]
    /\ sched' = [t \in Tasks |-> IF Discarded(t) THEN FALSE ELSE sched[t]]

\* Mutant: the Arc is not put back before Err(self) is returned.
Exec_restored_Skipped == "None"

\* runtime/tokio_tp.rs:117, :139: self.exec = Some(arc), after
\* self.exec.take() at :112, :134 left the field None.
Exec_restored == "Some"

\* The body shared by shutdown_timeout and shutdown_background
\* (runtime/tokio_tp.rs:111-125, :133-147): take the Arc out of self, try to
\* unwrap it; on failure put it back and return Err(self); on success shut the
\* runtime down and return Ok(()), self being consumed.  An executor returned
\* without its Arc is alive and holds no reference to the runtime.
TokioTp_shutdown ==
    /\ clones >= 1
    /\ rt = "running"
    /\ IF try_unwrap
         THEN /\ rt' = "shutdown"
              /\ clones' = clones - 1
              /\ shutRes' = ShutdownOk
              /\ ShutdownAll
              /\ UNCHANGED hollow
         ELSE /\ shutRes' = ShutdownErr(Exec_restored)
              /\ clones' = IF Exec_restored = "Some" THEN clones ELSE clones - 1
              /\ hollow' = IF Exec_restored = "Some" THEN hollow ELSE hollow + 1
              /\ UNCHANGED << rt, rpc, slot, work, sched >>
    /\ UNCHANGED << variant, kind, val, susp, completed, counter, txAlive, rxAlive,
                    txWaker, rxWaker, keep_running, hstate, how, some, detached,
                    aborted, out, nReady >>
    /\ UNCHANGED << bo, top, boRet, calls, left, nestRet >>
    /\ UNCHANGED wrapVars
    /\ UNCHANGED yieldVars
    /\ UNCHANGED awaitVars
    /\ UNCHANGED affinityVars
    /\ UNCHANGED histVars
    /\ UNCHANGED << spawnVars, taskFault, blockVars >>

shutdown_timeout == TokioTp_shutdown

shutdown_background == TokioTp_shutdown

\* #[derive(Clone)]: one more strong reference.
TokioTp_clone ==
    /\ clones >= 1
    /\ clones < MaxClones
    /\ clones' = clones + 1
    /\ UNCHANGED << bo, top, boRet, calls, left, nestRet, rt, shutRes, hollow >>
    /\ UNCHANGED wrapVars
    /\ UNCHANGED yieldVars
    /\ UNCHANGED awaitVars
    /\ UNCHANGED affinityVars
    /\ UNCHANGED histVars
    /\ UNCHANGED << taskVars, spawnVars, taskFault, blockVars >>

\* A clone is dropped; the runtime goes with the last one.
TokioTp_drop ==
    /\ clones >= 1
    /\ clones' = clones - 1
    /\ IF clones = 1
         THEN /\ rt' = "shutdown"
              /\ ShutdownAll
         ELSE UNCHANGED << rt, rpc, slot, work, sched >>
    /\ UNCHANGED << variant, kind, val, susp, completed, counter, txAlive, rxAlive,
                    txWaker, rxWaker, keep_running, hstate, how, some, detached,
                    aborted, out, nReady >>
    /\ UNCHANGED << bo, top, boRet, calls, left, nestRet, shutRes, hollow >>
    /\ UNCHANGED wrapVars
    /\ UNCHANGED yieldVars
    /\ UNCHANGED awaitVars
    /\ UNCHANGED affinityVars
    /\ UNCHANGED histVars
    /\ UNCHANGED << spawnVars, taskFault, blockVars >>

\* The exec fields of the TokioTp values a caller can call a method on.
TokioTp_execs ==
    (IF clones >= 1 THEN {"Some"} ELSE {}) \cup (IF hollow >= 1 THEN {"None"} ELSE {})

\* self.exec.as_ref().unwrap() of block_on, spawn_obj and spawn_handle_obj
\* (runtime/tokio_tp.rs:94, :154, :176): panics on None.
TokioTp_exec_unwrap(exec) == IF exec = "Some" THEN "runtime" ELSE "panic"

\* SpawnHandle::spawn_handle_obj through a live TokioTp value
\* (runtime/tokio_tp.rs:171-178): the runtime behind exec takes the task; an
\* unwrap that fails panics at the call and nothing is spawned.
TokioTp_spawn_handle(t, s) ==
    \E exec \in TokioTp_execs :
        IF TokioTp_exec_unwrap(exec) = "runtime"
          THEN /\ rt = "running"
               /\ SpawnTask(t, "TokioJoinHandle", "value", 1, s)
          ELSE /\ variant[t] = "none"
               /\ spawnRes' = Set(spawnRes, t, "panic")
               /\ UNCHANGED << attempts, rejected >>
               /\ UNCHANGED << taskVars, taskFault, blockVars, execVars, wrapVars,
                               histVars, yieldVars, awaitVars, affinityVars >>

\* A worker thread of the runtime polls a task.
TokioTp_task_poll(t) ==
    /\ rt = "running"
    /\ TokioTask_poll(t)

\* --------------------------------------------------- wrapped capabilities
\* Spawn::spawn_obj of backend b on a record of calls: the backend takes the
\* future when it accepts new work, and answers.
Backend_spawn_obj(calls_, b) ==
    [q |-> IF accepting[b] THEN Set(calls_.q, b, calls_.q[b] + 1) ELSE calls_.q,
     op |-> "spawn",
     res |-> spawn_obj(accepting[b])]

\* Spawn::status of backend b (core/spawn.rs:28-30 is the default, Ok; a
\* backend may answer for itself).
Backend_status(calls_, b) ==
    [q |-> calls_.q,
     op |-> "status",
     res |-> IF accepting[b] THEN "Ok" ELSE "SpawnRejected"]

\* Mutant: the wrapper reaches another capability than the one it wraps.
Wrapper_deref_Other(w, b) == IF b = 1 THEN NumBackends ELSE 1

\* (**self) for Box, Rc and Arc, the auto-deref of Sp::spawn_obj(self, ..) for
\* the two references: the capability the wrapper was made from.
Wrapper_deref(w, b) == b

\* impl Spawn / LocalSpawn / LocalSpawnHandle for the wrappers: the call is
\* made on the wrapped capability and its Result returned.
Wrapper_spawn_obj(calls_, w, b) == Backend_spawn_obj(calls_, Wrapper_deref(w, b))

Wrapper_status(calls_, w, b) == Backend_status(calls_, Wrapper_deref(w, b))

\* One spawn made through wrapper w of backend b, and the same spawn made on
\* b itself.
Wrapped_spawn(w, b) ==
    /\ direct.q[b] < MaxSpawns
    /\ wrapped.q[Wrapper_deref(w, b)] < MaxSpawns
    /\ wrapped' = Wrapper_spawn_obj(wrapped, w, b)
    /\ direct' = Backend_spawn_obj(direct, b)
    /\ via' = w
    /\ UNCHANGED accepting
    /\ UNCHANGED << taskVars, spawnVars, taskFault, blockVars, execVars, histVars >>
    /\ UNCHANGED yieldVars
    /\ UNCHANGED awaitVars
    /\ UNCHANGED affinityVars

\* One status query through wrapper w of backend b, and the same query on b.
Wrapped_status(w, b) ==
    /\ wrapped' = Wrapper_status(wrapped, w, b)
    /\ direct' = Backend_status(direct, b)
    /\ via' = w
    /\ UNCHANGED accepting
    /\ UNCHANGED << taskVars, spawnVars, taskFault, blockVars, execVars, histVars >>
    /\ UNCHANGED yieldVars
    /\ UNCHANGED awaitVars
    /\ UNCHANGED affinityVars

\* A backend stops accepting new work (it was shut down).
Backend_stop(b) ==
    /\ accepting[b]
    /\ accepting' = Set(accepting, b, FALSE)
    /\ UNCHANGED << wrapped, direct, via >>
    /\ UNCHANGED << taskVars, spawnVars, taskFault, blockVars, execVars, histVars >>
    /\ UNCHANGED yieldVars
    /\ UNCHANGED awaitVars
    /\ UNCHANGED affinityVars

\* ------------------------------------------------------------- yield_now
\* tokio::task::yield_now() (runtime/tokio_ct.rs:193, runtime/tokio_tp.rs:213,
\* runtime/tokio_static.rs:55): Pending at the first poll, with the task woken
\* for the next turn; Ready at the poll after.
tokio_yield_now(polls) == IF polls = 0 THEN "pending" ELSE "ready"

\* Task::<()>::yield_if_needed() (runtime/glommio_ct.rs:115,
\* runtime/glommio_static.rs:65): the task goes to the back of its queue only
\* when the scheduler asks the queue to yield; otherwise the future is Ready
\* at once.
yield_if_needed(polls, need) == IF polls = 0 /\ need THEN "pending" ELSE "ready"

\* The outcome of the next poll of the future of task t.
YieldNow_outcome(t) ==
    IF yld[t].backend \in GlommioBackends
      THEN yield_if_needed(yld[t].polls, need_preempt)
      ELSE tokio_yield_now(yld[t].polls)

\* YieldNowStatic::yield_now / YieldNow::yield_now (core/yield_now.rs:4-18)
\* called by the running task t on backend b: the future is made, and the
\* task that awaits it is running.
YieldNow_yield_now(t, b) ==
    /\ yld[t] = NoYield
    /\ yld' = Set(yld, t, [backend |-> b, polls |-> 0, out |-> "none", woken |-> TRUE])
    /\ UNCHANGED need_preempt
    /\ UNCHANGED << taskVars, spawnVars, taskFault, blockVars, execVars, wrapVars,
                    histVars, awaitVars >>
    /\ UNCHANGED affinityVars


\* One poll of the future, in a turn of its task.
YieldNow_poll(t) ==
    /\ yld[t].backend # ""
    /\ yld[t].out # "ready"
    /\ yld[t].woken
    /\ yld' = Set(yld, t, [backend |-> yld[t].backend,
                           polls |-> yld[t].polls + 1,
                           out |-> YieldNow_outcome(t),
                           woken |-> FALSE])
    /\ UNCHANGED need_preempt
    /\ UNCHANGED << taskVars, spawnVars, taskFault, blockVars, execVars, wrapVars,
                    histVars, awaitVars >>
    /\ UNCHANGED affinityVars


\* The next scheduling turn: the task that yielded is in the run queue again.
YieldNow_turn(t) ==
    /\ yld[t].out = "pending"
    /\ ~yld[t].woken
    /\ yld' = Set(yld, t, [yld[t] EXCEPT !.woken = TRUE])
    /\ UNCHANGED need_preempt
    /\ UNCHANGED << taskVars, spawnVars, taskFault, blockVars, execVars, wrapVars,
                    histVars, awaitVars >>
    /\ UNCHANGED affinityVars


\* glommio's preemption timer fires, or the request is served.
Glommio_preempt ==
    /\ need_preempt' = ~need_preempt
    /\ UNCHANGED yld
    /\ UNCHANGED << taskVars, spawnVars, taskFault, blockVars, execVars, wrapVars,
                    histVars, awaitVars >>
    /\ UNCHANGED affinityVars


\* ------------------------------------------------------- polling the handle
\* oneshot Receiver::poll: the data once the Sender is done, Canceled when the
\* Sender went away leaving nothing, else Pending (the waker is stored).
Receiver_poll(t) ==
    IF slot[t].tag \in {"ok", "panic"} THEN slot[t]
    ELSE IF ~txAlive[t] THEN CancelledMsg
    ELSE Empty

\* Mutant: a captured panic is returned as a default output instead of re-raised.
RemoteHandle_poll_PanicAsOutput(t) ==
    CASE Receiver_poll(t).tag = "empty" -> Pending
      [] Receiver_poll(t).tag \in {"ok", "panic"} -> Ready(Receiver_poll(t).v)
      [] OTHER -> Fault

\* Mutant: a captured panic is swallowed, the handle keeps waiting.
RemoteHandle_poll_SwallowPanic(t) ==
    CASE Receiver_poll(t).tag \in {"empty", "panic"} -> Pending
      [] Receiver_poll(t).tag = "ok" -> Ready(Receiver_poll(t).v)
      [] OTHER -> Fault

\* Mutant: a dropped Sender is not an error, the handle keeps waiting.
RemoteHandle_poll_CanceledPending(t) ==
    CASE Receiver_poll(t).tag \in {"empty", "cancelled"} -> Pending
      [] Receiver_poll(t).tag = "ok" -> Ready(Receiver_poll(t).v)
      [] OTHER -> Fault

\* remote_handle.rs:57-65.
RemoteHandle_poll(t) ==
    CASE Receiver_poll(t).tag = "empty" -> Pending
      [] Receiver_poll(t).tag = "ok" -> Ready(Receiver_poll(t).v)
      [] OTHER -> Fault

\* Mutant: the Err arm does not panic, the join error is swallowed.
InnerJh_Tokio_poll_SwallowErr(t) ==
    CASE slot[t].tag \in {"empty", "cancelled"} -> Pending
      [] slot[t].tag = "ok" -> Ready(slot[t].v)
      [] OTHER -> Fault

\* tokio's JoinHandle::poll: Ok(output), Err(JoinError) for a panicked or
\* cancelled task, a panic of its own once the output was taken.
\* core/join_handle.rs:179-190, the InnerJh::Tokio arm.
InnerJh_Tokio_poll(t) ==
    CASE slot[t].tag = "empty" -> Pending
      [] slot[t].tag = "ok" -> Ready(slot[t].v)
      [] OTHER -> Fault

\* Mutant: a poll after completion waits instead of panicking.
TokioJoinHandle_poll_PendingAfter(t) ==
    IF some[t]
      THEN CASE slot[t].tag = "empty" -> Pending
             [] slot[t].tag = "ok" -> Ready(slot[t].v)
             [] OTHER -> Fault
      ELSE Pending

\* runtime/tokio_jh.rs:24-40.
TokioJoinHandle_poll(t) ==
    IF some[t]
      THEN CASE slot[t].tag = "empty" -> Pending
             [] slot[t].tag = "ok" -> Ready(slot[t].v)
             [] OTHER -> Fault
      ELSE Fault

\* core/join_handle.rs:193-200, the InnerJh::AsyncStd arm: Err(Aborted) is
\* unreachable!(), a panicked or already joined task panics in the join.
InnerJh_AsyncStd_poll(t) ==
    CASE slot[t].tag = "empty" -> Pending
      [] slot[t].tag = "ok" -> Ready(slot[t].v)
      [] OTHER -> Fault

\* runtime/async_std.rs:134-147.
AsyncStdJoinHandle_poll(t) ==
    IF some[t]
      THEN CASE slot[t].tag = "empty" -> Pending
             [] slot[t].tag = "ok" -> Ready(slot[t].v)
             [] OTHER -> Fault
      ELSE Fault

\* core/join_handle.rs:203-215, the InnerJh::AsyncGlobal and InnerJh::Glommio
\* arms: unwrap / unreachable! on an empty Option; the Task's poll panics
\* ("task has failed") for a closed task.
InnerJh_Task_poll(t) ==
    IF some[t]
      THEN CASE slot[t].tag = "empty" -> Pending
             [] slot[t].tag = "ok" -> Ready(slot[t].v)
             [] OTHER -> Fault
      ELSE Fault

\* core/join_handle.rs:216, the InnerJh::RemoteHandle arm.
InnerJh_RemoteHandle_poll(t) == IF some[t] THEN RemoteHandle_poll(t) ELSE Fault

PollOutcome(t) ==
    CASE variant[t] = "RemoteHandle" -> InnerJh_RemoteHandle_poll(t)
      [] variant[t] = "Tokio" -> InnerJh_Tokio_poll(t)
      [] variant[t] = "TokioJoinHandle" -> TokioJoinHandle_poll(t)
      [] variant[t] = "AsyncStd" -> InnerJh_AsyncStd_poll(t)
      [] variant[t] = "AsyncStdJoinHandle" -> AsyncStdJoinHandle_poll(t)
      [] OTHER -> InnerJh_Task_poll(t)

\* TokioJoinHandle clears its Option when the output is returned
\* (runtime/tokio_jh.rs:27); no other variant touches its slot in poll.
SomeAfterPoll(t) ==
    IF variant[t] = "TokioJoinHandle" /\ PollOutcome(t).tag = "ready" THEN FALSE ELSE some[t]

\* A poll that got past Pending consumed what the cell held.
SlotAfterPoll(t) ==
    IF PollOutcome(t).tag = "pending" \/ slot[t].tag = "empty" \/ ~some[t]
      THEN slot[t]
      ELSE Taken

\* The guard assertion of JoinHandle::poll that a poll of the handle trips
\* (core/join_handle.rs:193-216): the AsyncStd arm's unreachable!() on
\* Err(Aborted), the unwrap of the AsyncGlobal arm and the unreachable!() of
\* the Glommio arm on an empty Option<Task>, the expect("no polling after
\* detach") of the RemoteHandle arm on an empty Option<RemoteHandle>.
JoinHandle_poll_guard(t) ==
    CASE variant[t] = "AsyncStd" /\ slot[t].tag = "aborted" -> "unreachable"
      [] variant[t] = "AsyncGlobal" /\ ~some[t] -> "unwrap"
      [] variant[t] = "Glommio" /\ ~some[t] -> "unreachable"
      [] variant[t] \in RemoteVariants /\ ~some[t] -> "no polling after detach"
      [] OTHER -> ""

\* <JoinHandle as Future>::poll, core/join_handle.rs:173-218.
JoinHandle_poll(t) ==
    /\ hstate[t] = "held"
    /\ out' = Set(out, t, PollOutcome(t))
    /\ nReady' = Set(nReady, t, IF PollOutcome(t).tag = "ready"
                                  THEN (IF nReady[t] = 0 THEN 1 ELSE 2)
                                  ELSE nReady[t])
    /\ slot' = Set(slot, t, SlotAfterPoll(t))
    /\ some' = Set(some, t, SomeAfterPoll(t))
    /\ rxWaker' = Set(rxWaker, t, rxWaker[t] \/ PollOutcome(t).tag = "pending")
    /\ UNCHANGED << variant, kind, val, susp, work, completed, counter, sched, rpc,
                    txAlive, rxAlive, txWaker, keep_running, hstate, how, detached,
                    aborted >>
    /\ UNCHANGED << spawnVars, taskFault, blockVars >>
    /\ UNCHANGED execVars
    /\ UNCHANGED wrapVars
    /\ UNCHANGED yieldVars
    /\ UNCHANGED awaitVars
    /\ UNCHANGED affinityVars
    /\ UNCHANGED histVars

\* ------------------------------------------------------ awaiting the handle
\* The caller awaits the handle inside a task of its own: that task polls the
\* handle when it reaches the await and, after a Pending, when the waker it
\* left in the channel is woken.  RemoteHandle::poll is rx.poll_unpin(cx)
\* (remote_handle.rs:57) and the remote's send is drop(tx.send(output))
\* (remote_handle.rs:109); the steps of the oneshot channel under them that
\* another thread can interleave with are the actions below.

\* The awaiting task is polled: at the await itself, or because it was woken.
Awaiter_runs(t) == awoken[t] \/ out[t] = NoPoll

\* Receiver::poll, first load of complete (set once the Sender is dropped).
Receiver_poll_check(t) ==
    /\ variant[t] \in RemoteVariants
    /\ hstate[t] = "held"
    /\ some[t]
    /\ jpc[t] = "idle"
    /\ out[t].tag \notin {"ready", "fault"}
    /\ Awaiter_runs(t)
    /\ awoken' = Set(awoken, t, FALSE)
    /\ jpc' = Set(jpc, t, IF ~txAlive[t] THEN "take" ELSE "register")
    /\ UNCHANGED << taskVars, spawnVars, taskFault, blockVars, execVars, wrapVars,
                    histVars, yieldVars >>
    /\ UNCHANGED affinityVars


\* Receiver::poll, the waker is stored in rx_task.
Receiver_poll_register(t) ==
    /\ jpc[t] = "register"
    /\ rxWaker' = Set(rxWaker, t, TRUE)
    /\ jpc' = Set(jpc, t, "recheck")
    /\ UNCHANGED << variant, kind, val, susp, work, completed, counter, sched, rpc,
                    slot, txAlive, rxAlive, txWaker, keep_running, hstate, how,
                    some, detached, aborted, out, nReady >>
    /\ UNCHANGED awoken
    /\ UNCHANGED << spawnVars, taskFault, blockVars, execVars, wrapVars, histVars,
                    yieldVars >>
    /\ UNCHANGED affinityVars


\* Mutant: complete is not loaded again once the waker is stored.
Receiver_recheck_Skip(t) == FALSE

\* Receiver::poll, second load of complete, after the waker was stored.
Receiver_recheck(t) == ~txAlive[t]

\* Receiver::poll returns Pending, or goes on to take the data.
Receiver_poll_recheck(t) ==
    /\ jpc[t] = "recheck"
    /\ IF Receiver_recheck(t)
         THEN /\ jpc' = Set(jpc, t, "take")
              /\ UNCHANGED out
         ELSE /\ jpc' = Set(jpc, t, "idle")
              /\ out' = Set(out, t, Pending)
    /\ UNCHANGED << variant, kind, val, susp, work, completed, counter, sched, rpc,
                    slot, txAlive, rxAlive, txWaker, rxWaker, keep_running, hstate,
                    how, some, detached, aborted, nReady >>
    /\ UNCHANGED awoken
    /\ UNCHANGED << spawnVars, taskFault, blockVars, execVars, wrapVars, histVars,
                    yieldVars >>
    /\ UNCHANGED affinityVars


\* Receiver::poll takes what the channel holds and RemoteHandle::poll maps it
\* (remote_handle.rs:58-64): the output, a resumed panic, or a panic of its
\* own for Canceled.
RemoteHandle_poll_take(t) ==
    /\ jpc[t] = "take"
    /\ jpc' = Set(jpc, t, "idle")
    /\ out' = Set(out, t, PollOutcome(t))
    /\ nReady' = Set(nReady, t, IF PollOutcome(t).tag = "ready"
                                  THEN (IF nReady[t] = 0 THEN 1 ELSE 2)
                                  ELSE nReady[t])
    /\ slot' = Set(slot, t, SlotAfterPoll(t))
    /\ some' = Set(some, t, SomeAfterPoll(t))
    /\ UNCHANGED << variant, kind, val, susp, work, completed, counter, sched, rpc,
                    txAlive, rxAlive, txWaker, rxWaker, keep_running, hstate, how,
                    detached, aborted >>
    /\ UNCHANGED awoken
    /\ UNCHANGED << spawnVars, taskFault, blockVars, execVars, wrapVars, histVars,
                    yieldVars >>
    /\ UNCHANGED affinityVars


\* remote_handle.rs:109, tx.send(output): the output is written to the cell.
Sender_send_data(t) ==
    /\ variant[t] \in RemoteVariants
    /\ rpc[t] = "send"
    /\ slot' = Set(slot, t, Sent(t))
    /\ rpc' = Set(rpc, t, "complete")
    /\ sends' = Set(sends, t, IF sends[t] = 0 THEN 1 ELSE 2)
    /\ UNCHANGED << variant, kind, val, susp, work, completed, counter, sched,
                    txAlive, rxAlive, txWaker, rxWaker, keep_running, hstate, how,
                    some, detached, aborted, out, nReady >>
    /\ UNCHANGED << spawnVars, taskFault, blockVars, execVars, wrapVars, yieldVars,
                    awaitVars >>
    /\ UNCHANGED affinityVars


\* send consumed the Sender: its drop stores complete ...
Sender_drop_complete(t) ==
    /\ rpc[t] = "complete"
    /\ txAlive' = Set(txAlive, t, FALSE)
    /\ rpc' = Set(rpc, t, "wake")
    /\ UNCHANGED << variant, kind, val, susp, work, completed, counter, sched,
                    slot, rxAlive, txWaker, rxWaker, keep_running, hstate, how,
                    some, detached, aborted, out, nReady >>
    /\ UNCHANGED << spawnVars, taskFault, blockVars, execVars, wrapVars, histVars,
                    yieldVars, awaitVars >>
    /\ UNCHANGED affinityVars


\* ... and takes the waker out of rx_task and wakes it, if one is stored;
\* Remote::poll then returns Ready (remote_handle.rs:110).
Sender_drop_wake(t) ==
    /\ rpc[t] = "wake"
    /\ awoken' = Set(awoken, t, awoken[t] \/ rxWaker[t])
    /\ rxWaker' = Set(rxWaker, t, FALSE)
    /\ rpc' = Set(rpc, t, "resolved")
    /\ UNCHANGED << variant, kind, val, susp, work, completed, counter, sched,
                    slot, txAlive, rxAlive, txWaker, keep_running, hstate, how,
                    some, detached, aborted, out, nReady >>
    /\ UNCHANGED jpc
    /\ UNCHANGED << spawnVars, taskFault, blockVars, execVars, wrapVars, histVars,
                    yieldVars >>
    /\ UNCHANGED affinityVars


\* ------------------------------------------------------ detach and drop
\* A wake of the backend task: a finished or discarded task is not rescheduled.
Woken(t) == sched[t] \/ rpc[t] \notin {"resolved", "dropped"}

\* Mutant: the Receiver goes away without waking the remote.
DropReceiver_NoWake(t) ==
    /\ rxAlive' = Set(rxAlive, t, FALSE)
    /\ UNCHANGED sched

\* Dropping the Receiver: complete is set and the waker in tx_task is woken.
DropReceiver(t) ==
    /\ rxAlive' = Set(rxAlive, t, FALSE)
    /\ sched' = Set(sched, t, IF txWaker[t] THEN Woken(t) ELSE sched[t])

\* Mutant: the Receiver is dropped before keep_running is stored.
RemoteHandle_forget_DropFirst(t) ==
    \/ /\ hstate[t] = "held"
       /\ some[t]
       /\ some' = Set(some, t, FALSE)
       /\ DropReceiver(t)
       /\ hstate' = Set(hstate, t, "forgetting")
       /\ UNCHANGED << keep_running, how >>
    \/ /\ hstate[t] = "forgetting"
       /\ keep_running' = Set(keep_running, t, TRUE)
       /\ hstate' = Set(hstate, t, "gone")
       /\ how' = Set(how, t, "detached")
       /\ UNCHANGED << some, rxAlive, sched >>

\* RemoteHandle::forget (remote_handle.rs:49-51) under JoinHandle::detach
\* (core/join_handle.rs:158-161): the store, then self goes out of scope.
RemoteHandle_forget(t) ==
    \/ /\ hstate[t] = "held"
       /\ some[t]
       /\ some' = Set(some, t, FALSE)
       /\ keep_running' = Set(keep_running, t, TRUE)
       /\ hstate' = Set(hstate, t, "forgetting")
       /\ UNCHANGED << rxAlive, sched, how >>
    \/ /\ hstate[t] = "forgetting"
       /\ DropReceiver(t)
       /\ hstate' = Set(hstate, t, "gone")
       /\ how' = Set(how, t, "detached")
       /\ UNCHANGED << some, keep_running >>

\* The backend's abort call: the flag is set and the task is woken.
Abort(t) ==
    /\ aborted' = Set(aborted, t, TRUE)
    /\ sched' = Set(sched, t, Woken(t))

\* Mutant: detach leaves the flag as it is.
InnerJh_detach_NoStore(t) == UNCHANGED << detached, some >>

\* core/join_handle.rs:134-141, :149-152: detached.store(true).
InnerJh_detach(t) ==
    /\ detached' = Set(detached, t, TRUE)
    /\ UNCHANGED some

\* runtime/tokio_jh.rs:42-46, runtime/async_std.rs:149-156 and
\* core/join_handle.rs:143-147, :154-156: the Option is emptied (the Task is
\* detached).
NativeJoinHandle_detach(t) ==
    /\ some' = Set(some, t, FALSE)
    /\ UNCHANGED detached

\* Whether Drop issues the backend's abort.
\* core/join_handle.rs:233-240: if !detached.
InnerJh_drop_aborts(t) == ~detached[t]

\* runtime/tokio_jh.rs:47-53, runtime/async_std.rs:157-163: if the Option is
\* Some.  core/join_handle.rs:243-247: the Option<Task> is just dropped, and a
\* Task that is still held cancels its task.
NativeJoinHandle_drop_aborts(t) == some[t]

\* Mutant: detach borrows the handle instead of consuming it: the slot is
\* emptied or the flag stored, and the caller still holds the handle.
JoinHandle_detach_ByRef(t) ==
    /\ variant[t] \in Variants
    /\ hstate[t] = "held"
    /\ some[t]
    /\ some' = Set(some, t, variant[t] \in FlagVariants)
    /\ detached' = Set(detached, t, variant[t] \in FlagVariants)
    /\ keep_running' = Set(keep_running, t, variant[t] \in RemoteVariants)
    /\ UNCHANGED << variant, kind, val, susp, work, completed, counter, sched, rpc,
                    slot, txAlive, rxAlive, txWaker, rxWaker, hstate, how, aborted,
                    out, nReady >>
    /\ UNCHANGED << spawnVars, taskFault, blockVars >>
    /\ UNCHANGED execVars
    /\ UNCHANGED wrapVars
    /\ UNCHANGED yieldVars
    /\ UNCHANGED awaitVars
    /\ UNCHANGED affinityVars
    /\ UNCHANGED histVars

\* JoinHandle::detach, core/join_handle.rs:128-164.  detach takes self by
\* value: when it returns, self goes out of scope and the Drop impl runs on
\* what detach left in the handle.
JoinHandle_detach(t) ==
    /\ variant[t] \in Variants
    /\ IF variant[t] \in RemoteVariants
         THEN /\ RemoteHandle_forget(t)
              /\ UNCHANGED << detached, aborted >>
         ELSE /\ hstate[t] = "held"
              /\ IF variant[t] \in FlagVariants
                   THEN InnerJh_detach(t)
                   ELSE NativeJoinHandle_detach(t)
              /\ IF IF variant[t] \in FlagVariants
                      THEN InnerJh_drop_aborts(t)'
                      ELSE NativeJoinHandle_drop_aborts(t)'
                   THEN Abort(t)
                   ELSE UNCHANGED << aborted, sched >>
              /\ hstate' = Set(hstate, t, "gone")
              /\ how' = Set(how, t, "detached")
              /\ UNCHANGED << keep_running, rxAlive >>
    /\ UNCHANGED << variant, kind, val, susp, work, completed, counter, rpc, slot,
                    txAlive, txWaker, rxWaker, out, nReady >>
    /\ UNCHANGED << spawnVars, taskFault, blockVars >>
    /\ UNCHANGED execVars
    /\ UNCHANGED wrapVars
    /\ UNCHANGED yieldVars
    /\ UNCHANGED awaitVars
    /\ UNCHANGED affinityVars
    /\ UNCHANGED histVars

\* <JoinHandle as Drop>::drop, core/join_handle.rs:223-252, for a handle that
\* was not detached.
JoinHandle_drop(t) ==
    /\ hstate[t] = "held"
    /\ hstate' = Set(hstate, t, "gone")
    /\ how' = Set(how, t, "dropped")
    /\ IF variant[t] \in RemoteVariants
         THEN /\ DropReceiver(t)
              /\ UNCHANGED aborted
         ELSE /\ IF IF variant[t] \in FlagVariants
                      THEN InnerJh_drop_aborts(t)
                      ELSE NativeJoinHandle_drop_aborts(t)
                   THEN Abort(t)
                   ELSE UNCHANGED << aborted, sched >>
              /\ UNCHANGED rxAlive
    /\ UNCHANGED << variant, kind, val, susp, work, completed, counter, rpc, slot,
                    txAlive, txWaker, rxWaker, keep_running, some, detached, out,
                    nReady >>
    /\ UNCHANGED << spawnVars, taskFault, blockVars >>
    /\ UNCHANGED execVars
    /\ UNCHANGED wrapVars
    /\ UNCHANGED yieldVars
    /\ UNCHANGED awaitVars
    /\ UNCHANGED affinityVars
    /\ UNCHANGED histVars

\* ---------------------------------------------------------- specification
\* Spec follows one unit of work and its handle through every interleaving of
\* the caller's and the backend's steps: units of work share nothing but the
\* counter (each pair has its own channel and flag, remote_handle.rs:116-117).
Alone(t) == \A u \in Tasks \ {t} : variant[u] = "none"

Spawn(t) ==
    /\ Alone(t)
    /\ \E var \in Variants, k \in Kinds, v \in Values, s \in 0..MaxSuspend :
          SpawnTask(t, var, k, v, s)

\* A spawn_with_handle call on a backend that cannot accept the work.
SpawnRefused(t) ==
    /\ Alone(t)
    /\ \E k \in Kinds, v \in Values, s \in 0..MaxSuspend : SpawnRejected(t, k, v, s)

Next ==
    \E t \in Tasks :
        \/ Spawn(t)
        \/ SpawnRefused(t)
        \/ InnerWake(t)
        \/ Remote_poll_begin(t)
        \/ Remote_poll_load(t)
        \/ Remote_poll_inner(t)
        \/ Remote_poll_send(t)
        \/ BackendDiscard(t)
        \/ TokioTask_poll(t)
        \/ AsyncStdTask_poll(t)
        \/ AsyncTask_poll(t)
        \/ RuntimeShutdown(t)
        \/ JoinHandle_poll(t)
        \/ JoinHandle_detach(t)
        \/ JoinHandle_drop(t)

Spec == Init /\ [][Next]_vars

\* The backend's scheduling: a woken task is polled, and a poll that began
\* runs to its return.
BackendStep(t) ==
    \/ Remote_poll_begin(t)
    \/ Remote_poll_load(t)
    \/ Remote_poll_inner(t)
    \/ Remote_poll_send(t)
    \/ TokioTask_poll(t)
    \/ AsyncStdTask_poll(t)
    \/ AsyncTask_poll(t)

\* Spec under a backend that keeps polling what is woken.
FairSpec == Init /\ [][Next]_vars /\ \A t \in Tasks : WF_vars(BackendStep(t))

\* DetachSpec: NumTasks units of work, each incrementing the counter once, are
\* spawned with handles and run concurrently on a backend that stays alive; the
\* caller detaches the handles.  The event a unit of work waits for arrives.
\* All units are spawned on the one backend of the run, and are numbered in
\* the order of their spawn.
SpawnCounter(t) ==
    \E var \in Variants, s \in 0..MaxSuspend :
        /\ \A u \in Tasks : variant[u] \in {"none", var}
        /\ \A u \in Tasks : u < t => variant[u] # "none"
        /\ SpawnTask(t, var, "value", 1, s)

DetachNext ==
    \E t \in Tasks :
        \/ SpawnCounter(t)
        \/ JoinHandle_detach(t)
        \/ InnerWake(t)
        \/ Remote_poll_begin(t)
        \/ Remote_poll_load(t)
        \/ Remote_poll_inner(t)
        \/ Remote_poll_send(t)
        \/ TokioTask_poll(t)
        \/ AsyncStdTask_poll(t)
        \/ AsyncTask_poll(t)

DetachSpec ==
    /\ Init
    /\ [][DetachNext]_vars
    /\ \A t \in Tasks : WF_vars(BackendStep(t)) /\ WF_vars(InnerWake(t))

\* BlockSpec: spawn_blocking calls on one backend, glommio or tokio, each
\* closure on its thread; the caller keeps the handles or drops them at any
\* moment.  A thread runs whenever it can (it is an operating system thread).
Glommio_blocking(t) ==
    /\ \A u \in Tasks : blocking[u] \in {"", "thread"}
    /\ \E k \in Kinds : Glommio_spawn_blocking(t, k, 1)

Tokio_blocking(t) ==
    /\ \A u \in Tasks : blocking[u] \in {"", "pool"}
    /\ \E k \in Kinds : Tokio_spawn_blocking(t, k, 1)

ThreadStep(t) ==
    \/ Remote_poll_begin(t)
    \/ Remote_poll_load(t)
    \/ Closure_start(t)
    \/ Closure_end(t)
    \/ Remote_poll_send(t)
    \/ TokioBlocking_start(t)
    \/ TokioBlocking_end(t)

BlockNext ==
    \E t \in Tasks :
        \/ Glommio_blocking(t)
        \/ Tokio_blocking(t)
        \/ Remote_poll_begin(t)
        \/ Remote_poll_load(t)
        \/ Closure_start(t)
        \/ Closure_end(t)
        \/ Remote_poll_send(t)
        \/ TokioBlocking_start(t)
        \/ TokioBlocking_end(t)
        \/ JoinHandle_drop(t)

BlockSpec == Init /\ [][BlockNext]_vars /\ \A t \in Tasks : WF_vars(ThreadStep(t))

\* CtSpec: a TokioCt executor.  Units of work are spawned with handles from
\* outside or inside block_on, block_on is called up to MaxCalls times, and
\* a unit of work may call block_on itself.  Tasks are numbered in the order
\* of their spawn.
TokioCt_spawn(t) ==
    /\ \A u \in Tasks : u < t => variant[u] # "none"
    /\ \E s \in 0..MaxSuspend : SpawnTask(t, "TokioJoinHandle", "value", 1, s)

TokioCt_block_on ==
    \E k \in Kinds, v \in Values, s \in 0..MaxSuspend :
        /\ k = "value" \/ v = 1
        /\ block_on_enter(k, v, s)

CtNext ==
    \/ TokioCt_block_on
    \/ block_on_poll
    \/ block_on_nested_top
    \/ \E t \in Tasks :
          \/ TokioCt_spawn(t)
          \/ TokioCt_task_poll(t)
          \/ block_on_nested_task(t)
          \/ InnerWake(t)

CtSpec == Init /\ [][CtNext]_vars

\* TpSpec: a TokioTp executor and its clones.  Clones are made and dropped,
\* tasks are spawned through them and run by the runtime, the handles are
\* polled, and the two shutdown functions are called.  Tasks are numbered in
\* the order of their spawn.
TokioTp_spawn(t) ==
    /\ \A u \in Tasks : u < t => variant[u] # "none"
    /\ \E s \in 0..MaxSuspend : TokioTp_spawn_handle(t, s)

TpNext ==
    \/ TokioTp_clone
    \/ TokioTp_drop
    \/ shutdown_timeout
    \/ shutdown_background
    \/ \E t \in Tasks :
          \/ TokioTp_spawn(t)
          \/ TokioTp_task_poll(t)
          \/ InnerWake(t)
          \/ JoinHandle_poll(t)

TpSpec == Init /\ [][TpNext]_vars

\* WrapSpec: spawns and status queries made through the wrappers of the
\* backends, next to the same calls made on the backends themselves.
WrapNext ==
    \E b \in Backends :
        \/ Backend_stop(b)
        \/ \E w \in Wrappers : Wrapped_spawn(w, b)
        \/ \E w \in Wrappers : Wrapped_status(w, b)

WrapSpec == Init /\ [][WrapNext]_vars

\* YieldSpec: running tasks call yield_now on the backends that offer it and
\* await the future; glommio's scheduler asks for a yield at any moment.
YieldNext ==
    \/ Glommio_preempt
    \/ \E t \in Tasks :
          \/ \E b \in YieldBackends : YieldNow_yield_now(t, b)
          \/ YieldNow_poll(t)
          \/ YieldNow_turn(t)

YieldSpec == Init /\ [][YieldNext]_vars

\* ForgetSpec: units of work spawned without a handle, through spawn_obj /
\* spawn_local_obj of one backend adapter, and run by that backend.  Tasks are
\* numbered in the order of their spawn.
Spawn_forget(t) ==
    \E var \in {"Tokio", "AsyncStd", "AsyncGlobal", "Glommio"},
       k \in Kinds, s \in 0..MaxSuspend :
        /\ \A u \in Tasks : variant[u] \in {"none", var}
        /\ \A u \in Tasks : u < t => variant[u] # "none"
        /\ Adapter_spawn_obj(t, var, k, 1, s)

ForgetNext ==
    \E t \in Tasks :
        \/ Spawn_forget(t)
        \/ InnerWake(t)
        \/ TokioTask_poll(t)
        \/ AsyncStdTask_poll(t)
        \/ AsyncTask_poll(t)

ForgetSpec == Init /\ [][ForgetNext]_vars

\* AwaitSpec: a unit of work that returns or panics is spawned with a Remote
\* Pair, and the caller's task awaits the handle, which it keeps.  The poll
\* of the handle and the send of the remote interleave step by step.  The
\* backend, the awaiting task's executor and the event a unit of work waits
\* for all make progress.
Await_spawn(t) ==
    /\ Alone(t)
    /\ \E k \in {"value", "panic"}, v \in Values, s \in 0..MaxSuspend :
          SpawnTask(t, "RemoteHandle", k, v, s)

AwaiterStep(t) ==
    \/ Receiver_poll_check(t)
    \/ Receiver_poll_register(t)
    \/ Receiver_poll_recheck(t)
    \/ RemoteHandle_poll_take(t)

RemoteStep(t) ==
    \/ Remote_poll_begin(t)
    \/ Remote_poll_inner(t)
    \/ Sender_send_data(t)
    \/ Sender_drop_complete(t)
    \/ Sender_drop_wake(t)

AwaitNext ==
    \E t \in Tasks :
        \/ Await_spawn(t)
        \/ InnerWake(t)
        \/ Remote_poll_begin(t)
        \/ Remote_poll_inner(t)
        \/ Sender_send_data(t)
        \/ Sender_drop_complete(t)
        \/ Sender_drop_wake(t)
        \/ Receiver_poll_check(t)
        \/ Receiver_poll_register(t)
        \/ Receiver_poll_recheck(t)
        \/ RemoteHandle_poll_take(t)

AwaitSpec ==
    /\ Init
    /\ [][AwaitNext]_vars
    /\ \A t \in Tasks :
          WF_vars(RemoteStep(t)) /\ WF_vars(AwaiterStep(t)) /\ WF_vars(InnerWake(t))

\* BridgeSpec: spawn_blocking calls on a glommio backend, each closure on a
\* thread of its own that runs block_on(remote); the caller drops or detaches
\* the handles at any moment, before the thread's first poll included.  A
\* thread runs whenever it can.  The threads share nothing (each one owns
\* the remote of its call), so the calls are followed one after the other: a
\* call is made once the thread of the call before it has ended and its
\* handle is gone.
Bridge_spawn_blocking(t) ==
    /\ \A u \in Tasks : u < t => (rpc[u] = "resolved" /\ hstate[u] = "gone")
    /\ \E k \in Kinds : Glommio_spawn_blocking(t, k, 1)

BridgeThreadStep(t) ==
    \/ Remote_poll_begin(t)
    \/ Remote_poll_load(t)
    \/ Closure_start(t)
    \/ Closure_end(t)
    \/ Remote_poll_send(t)

BridgeNext ==
    \E t \in Tasks :
        \/ Bridge_spawn_blocking(t)
        \/ Remote_poll_begin(t)
        \/ Remote_poll_load(t)
        \/ Closure_start(t)
        \/ Closure_end(t)
        \/ Remote_poll_send(t)
        \/ JoinHandle_drop(t)
        \/ JoinHandle_detach(t)

BridgeSpec == Init /\ [][BridgeNext]_vars /\ \A t \in Tasks : WF_vars(BridgeThreadStep(t))

\* GuardSpec: on each calling thread guards are made and dropped, and the
\* thread is bound to other CPU sets, in any order.
GuardNext ==
    \E c \in Callers :
        \/ CoreAffinityGuard_new(c)
        \/ CoreAffinityGuard_drop(c)
        \/ Thread_rebind(c)

GuardSpec == Init /\ [][GuardNext]_vars

\* StaticSpec: guards are made and dropped on the calling threads, and
\* Glommio::spawn_blocking is called on them, with or without a live guard;
\* the threads it starts bind themselves and run their closures, and the
\* caller joins each handle when its thread has ended.  The calls share
\* nothing but the default CPU sets, which a call only reads, and are followed
\* one after the other: a call is made once the call before it has panicked
\* or has been joined.
Glommio_static_blocking(t) ==
    /\ \A u \in Tasks : u < t => (spawnRes[u] = "panic" \/ out[u] # NoPoll)
    /\ \E c \in Callers, k \in {"value", "panic"} : Glommio_static_spawn_blocking(t, c, k)

Glommio_static_join(t) ==
    /\ rpc[t] \in {"resolved", "dropped"}
    /\ out[t] = NoPoll
    /\ JoinHandle_poll(t)

StaticNext ==
    \/ \E c \in Callers :
          \/ CoreAffinityGuard_new(c)
          \/ CoreAffinityGuard_drop(c)
    \/ \E t \in Tasks :
          \/ Glommio_static_blocking(t)
          \/ Thread_bind(t)
          \/ Remote_poll_begin(t)
          \/ Closure_start(t)
          \/ Closure_end(t)
          \/ Remote_poll_send(t)
          \/ Glommio_static_join(t)

StaticSpec == Init /\ [][StaticNext]_vars

\* ------------------------------------------------------------------ claims

\* C1: round trip.  Every poll of a handle that returns Ready returns exactly
\* the value V of the unit of work, and a poll of a live handle whose result
\* cell holds the output of the work resolves with V.
C1_RoundTrip ==
    [][\A t \in Tasks : JoinHandle_poll(t) =>
          /\ (out'[t].tag = "ready" => out'[t].v = val[t])
          /\ (work[t] = "done" /\ slot[t].tag = "ok" /\ some[t] => out'[t] = Ready(val[t]))]_vars

C1_Witness ==
    \E t \in Tasks : /\ variant[t] = "RemoteHandle"
                     /\ val[t] = NumValues
                     /\ out[t] = Ready(NumValues)

\* C2: cancel on drop.  Once a Remote Pair handle was dropped (not detached),
\* a remote that is not already past its cancellation check never reaches the
\* poll of the inner work again: the work passes no further suspension point
\* and its completed marker is not set.
C2_CancelOnDrop ==
    [][\A t \in Tasks :
          (variant[t] \in RemoteVariants /\ how[t] = "dropped" /\ rpc[t] \notin {"run", "send"})
          => /\ rpc'[t] \notin {"run", "send"}
             /\ work'[t] \in {work[t], "dropped"}
             /\ susp'[t] = susp[t]
             /\ completed'[t] = completed[t]]_vars

C2_Witness ==
    \E t \in Tasks : /\ variant[t] = "RemoteHandle"
                     /\ kind[t] = "never"
                     /\ how[t] = "dropped"
                     /\ rpc[t] = "resolved"
                     /\ work[t] = "dropped"
                     /\ completed[t] = 0

\* C3: detach beats cancellation.  For a handle that is being or has been
\* detached, a remote poll that saw the Receiver dropped finds keep_running
\* true, and a remote that resolved did so by finishing the inner work, never
\* by the cancellation bail-out.
C3_DetachBeatsCancel ==
    \A t \in Tasks :
        (variant[t] \in RemoteVariants /\ (hstate[t] = "forgetting" \/ how[t] = "detached"))
        => /\ (rpc[t] = "cancel_seen" => keep_running[t])
           /\ (rpc[t] = "resolved" => work[t] \in {"done", "panicked"})

C3_Witness ==
    \E t \in Tasks : /\ variant[t] = "RemoteHandle"
                     /\ how[t] = "detached"
                     /\ rpc[t] = "cancel_seen"

C5_LostTask ==
    [][\A t \in Tasks :
          (JoinHandle_poll(t) /\ variant[t] \in RemoteVariants /\ some[t]
             /\ rpc[t] = "dropped" /\ slot[t].tag = "empty")
          => out'[t] = Fault]_vars

C5_Witness ==
    \E t \in Tasks : /\ variant[t] = "RemoteHandle"
                     /\ rpc[t] = "dropped"
                     /\ hstate[t] = "held"
                     /\ nReady[t] = 0
                     /\ out[t] = Fault

\* C6: no early completion.  A poll of a handle returns Ready only when the
\* unit of work has run to its end and its task has resolved.
C6_NoEarlyCompletion ==
    [][\A t \in Tasks :
          (JoinHandle_poll(t) /\ out'[t].tag = "ready")
          => work[t] = "done" /\ completed[t] = 1 /\ rpc[t] = "resolved"]_vars

C6_Witness ==
    \E t \in Tasks : /\ variant[t] = "RemoteHandle"
                     /\ rxWaker[t]
                     /\ out[t].tag = "ready"

\* C9: no second poll.  After a poll returned the output, every further poll
\* of the handle is a fault, for every variant.
C9_NoSecondPoll ==
    [][\A t \in Tasks :
          (JoinHandle_poll(t) /\ nReady[t] >= 1) => out'[t] = Fault /\ nReady'[t] = 1]_vars

C9_Witness ==
    \E t \in Tasks : /\ variant[t] = "TokioJoinHandle"
                     /\ nReady[t] = 1
                     /\ out[t] = Fault

\* C10: backend teardown is loud.  When the runtime discarded the unfinished
\* task of a tokio handle, every poll of that handle raises a fault.
C10_TeardownIsLoud ==
    [][\A t \in Tasks :
          (JoinHandle_poll(t) /\ variant[t] \in TokioVariants /\ rpc[t] = "dropped")
          => out'[t] = Fault]_vars

C10_Witness ==
    \E t \in Tasks : /\ variant[t] = "Tokio"
                     /\ rpc[t] = "dropped"
                     /\ hstate[t] = "held"
                     /\ out[t] = Fault

\* C11: spawn rejection.  When the backend's spawn_obj refused the work, the
\* spawn call returned SpawnRejected, produced no handle, made exactly one
\* spawn attempt, and the unit of work is never polled or scheduled.
C11_SpawnRejection ==
    \A t \in Tasks :
        rejected[t] => /\ spawnRes[t] = "SpawnRejected"
                       /\ hstate[t] = "none" /\ ~some[t] /\ out[t] = NoPoll
                       /\ attempts[t] = 1
                       /\ ~sched[t] /\ rpc[t] = "dropped"
                       /\ work[t] = "dropped" /\ completed[t] = 0

C11_Witness ==
    \E t \in Tasks : /\ rejected[t]
                     /\ spawnRes[t] = "SpawnRejected"
                     /\ kind[t] = "value"
                     /\ work[t] = "dropped"

\* C12: cancellation is silent.  A held handle can be dropped in every state
\* of its task; the drop raises nothing on the dropping side (no poll outcome
\* changes) and, from the drop on, no panic leaves the task's poll on the side
\* running the work: a send to a Receiver that is gone is ignored.
C12_SilentCancel ==
    /\ [](\A t \in Tasks : hstate[t] = "held" => ENABLED JoinHandle_drop(t))
    /\ [][\A t \in Tasks :
             /\ (JoinHandle_drop(t) => out'[t] = out[t] /\ how'[t] = "dropped")
             /\ (JoinHandle_drop(t) \/ how[t] = "dropped" => taskFault'[t] = taskFault[t])]_vars

\* The handle was dropped while the remote was past its cancellation check;
\* the work finished and its output was sent to nobody.
C12_Witness ==
    \E t \in Tasks : /\ variant[t] = "RemoteHandle"
                     /\ how[t] = "dropped"
                     /\ work[t] = "done"
                     /\ rpc[t] = "resolved"
                     /\ slot[t] = Empty
                     /\ ~taskFault[t]

\* C13: abort on drop only while Running.  For the native-handle variants,
\* dropping a handle issues the backend's abort exactly when the handle was
\* not detached and no poll has returned its result; detaching issues none.
C13_AbortOnlyWhileRunning ==
    [][\A t \in Tasks :
          variant[t] \in NativeVariants =>
              /\ (JoinHandle_drop(t) => (aborted'[t] <=> nReady[t] = 0))
              /\ (JoinHandle_detach(t) => ~aborted'[t])]_vars

\* C14: blocking work is not interruptible.  A closure that has started is
\* never stopped or dropped, whatever happens to its handle, and a closure
\* whose handle was dropped while it runs still runs to its end, its task
\* resolving with nobody to receive the result.
C14_BlockingRunsOn ==
    /\ [][\A t \in Tasks :
             (blocking[t] # "" /\ work[t] = "running")
             => work'[t] \in {"running", "done", "panicked"}]_vars
    /\ \A t \in Tasks :
          (blocking[t] # "" /\ work[t] = "running" /\ how[t] = "dropped" /\ kind[t] # "never")
          ~> (/\ work[t] = (IF kind[t] = "panic" THEN "panicked" ELSE "done")
              /\ completed[t] = (IF kind[t] = "panic" THEN 0 ELSE 1)
              /\ rpc[t] = "resolved"
              /\ out[t] = NoPoll)

C14_Witness ==
    \E t \in Tasks : /\ blocking[t] = "thread"
                     /\ how[t] = "dropped"
                     /\ ~rxAlive[t]
                     /\ rpc[t] = "closure"
                     /\ work[t] = "running"

C16_BlockOnReturnsOutput ==
    /\ [][(bo = "in" /\ bo' = "out") =>
             \/ boRet' = Fault
             \/ (top.kind = "value" /\ top.susp = 0 /\ boRet' = Ready(top.v))]_vars
    /\ [](boRet.tag = "ready" => top.kind = "value" /\ top.susp = 0 /\ boRet.v = top.v)

C16_Witness ==
    /\ bo = "out"
    /\ calls = MaxCalls
    /\ top.v = NumValues
    /\ boRet = Ready(NumValues)

C18_ProgressOnlyInsideBlockOn ==
    /\ [][\A t \in Tasks :
             bo = "out" => /\ work'[t] = work[t]
                           /\ rpc'[t] = rpc[t]
                           /\ completed'[t] = completed[t]]_vars
    /\ [](bo = "out" => \A t \in left : rpc[t] = "idle" /\ work[t] \in {"new", "suspended"})

\* A task the first call left unfinished has finished during the second.
C18_Witness ==
    /\ bo = "in"
    /\ calls = 2
    /\ \E t \in left : work[t] = "done" /\ completed[t] = 1

\* C19: TokioTp shutdown needs sole ownership.  A shutdown call made while it
\* holds the only clone shuts the runtime down and returns Ok; made while
\* another clone is alive it returns Err with the executor, its exec field
\* restored, the runtime keeps running and no clone is lost.  A runtime that
\* was shut down has no clone left to spawn on, and every live clone accepts
\* a spawn.
C19_ShutdownSoleOwner ==
    /\ [][(shutdown_timeout \/ shutdown_background) =>
             IF clones = 1
               THEN shutRes' = ShutdownOk /\ rt' = "shutdown" /\ clones' = 0
               ELSE /\ shutRes' = ShutdownErr("Some")
                    /\ rt' = "running"
                    /\ clones' = clones
                    /\ \A t \in Tasks : rpc'[t] = rpc[t] /\ slot'[t] = slot[t]]_vars
    /\ [](rt = "shutdown" <=> clones = 0)
    /\ [](shutRes.tag = "Ok" => rt = "shutdown")
    /\ []((clones >= 1 /\ \E t \in Tasks : variant[t] = "none") =>
             \E t \in Tasks : ENABLED TokioTp_spawn(t))

\* A shutdown was refused, and a task was spawned afterwards and ran.
C19_Witness ==
    /\ shutRes = ShutdownErr("Some")
    /\ rt = "running"
    /\ clones = 2
    /\ \E t \in Tasks : variant[t] = "TokioJoinHandle" /\ out[t].tag = "ready"

\* C20: spawn and spawn_local fail only when the backend refused the work, and
\* a successful return means the work was handed to the backend, not that it
\* has run: right after the call the unit of work is scheduled, has not been
\* polled and has produced nothing.
C20_SpawnFailsOnlyWhenRefused ==
    /\ [](\A t \in Tasks : spawnRes[t] = "SpawnRejected" => rejected[t])
    /\ [][\A t \in Tasks :
             (spawnRes[t] = "" /\ spawnRes'[t] = "Ok") =>
                 /\ ~rejected'[t]
                 /\ sched'[t]
                 /\ rpc'[t] = "idle"
                 /\ work'[t] = "new"
                 /\ completed'[t] = 0]_vars

\* A spawn through the remote-handle path returned Ok and the work, accepted
\* by the backend, is still waiting for its first poll.
C20_Witness ==
    \E t \in Tasks : /\ variant[t] = "RemoteHandle"
                     /\ spawnRes[t] = "Ok"
                     /\ ~rejected[t]
                     /\ sched[t]
                     /\ work[t] = "new"

C22_PanicCaptured ==
    /\ [][\A t \in Tasks :
             /\ (Remote_poll_inner(t) /\ InnerPoll(t) = "panic") =>
                    /\ rpc'[t] = "send"
                    /\ work'[t] = "panicked"
                    /\ txAlive'[t]
                    /\ ~taskFault'[t]
             /\ (Remote_poll_send(t) /\ work[t] = "panicked") =>
                    /\ rpc'[t] = "resolved"
                    /\ ~taskFault'[t]
                    /\ (rxAlive[t] => slot'[t] = PanicMsg)]_vars
    /\ [](\A t \in Tasks : variant[t] \in RemoteVariants => ~taskFault[t])

\* The work panicked, the remote resolved and the fault waits in the channel.
C22_Witness ==
    \E t \in Tasks : /\ variant[t] = "RemoteHandle"
                     /\ kind[t] = "panic"
                     /\ work[t] = "panicked"
                     /\ rpc[t] = "resolved"
                     /\ slot[t] = PanicMsg
                     /\ ~taskFault[t]

\* C23: cancellation is not preemptive.  A drop of the handle that comes when
\* the remote's poll is past its cancellation check leaves that poll where it
\* is; the poll goes on to poll the inner work, once; when the inner work
\* completes in that poll its body has run to the end, and the send that
\* follows discards the result: the channel is left as it was and nothing
\* faults.
C23_NotPreemptive ==
    /\ [][\A t \in Tasks :
             /\ (JoinHandle_drop(t) /\ variant[t] \in RemoteVariants /\ rpc[t] = "run") =>
                    /\ rpc'[t] = "run"
                    /\ work'[t] = work[t]
                    /\ completed'[t] = completed[t]
             /\ (Remote_poll_inner(t) /\ how[t] = "dropped") =>
                    /\ work'[t] # work[t] \/ work[t] = "suspended"
                    /\ rpc'[t] \in {"idle", "send"}
                    /\ (InnerPoll(t) = "ready" =>
                           /\ completed'[t] = completed[t] + 1
                           /\ work'[t] = "done"
                           /\ rpc'[t] = "send")
             /\ (Remote_poll_send(t) /\ how[t] = "dropped") =>
                    /\ slot'[t] = slot[t]
                    /\ rpc'[t] = "resolved"
                    /\ ~taskFault'[t]]_vars
    /\ [](\A t \in Tasks :
             (variant[t] \in RemoteVariants /\ how[t] = "dropped" /\ rpc[t] = "run") =>
                 /\ ENABLED Remote_poll_inner(t)
                 /\ ~ENABLED Remote_poll_load(t)
                 /\ ~ENABLED Remote_poll_begin(t))

\* The handle was dropped while the poll was between its cancellation check
\* and the inner poll, and the inner work then completed in that poll.
C23_Witness ==
    \E t \in Tasks : /\ variant[t] = "RemoteHandle"
                     /\ how[t] = "dropped"
                     /\ ~keep_running[t]
                     /\ txWaker[t]
                     /\ rpc[t] = "send"
                     /\ work[t] = "done"
                     /\ completed[t] = 1

\* C24: at most one result.  The remote of a pair calls send at most once in
\* its life; the call is made in the poll in which the inner work finished,
\* by its output or by a panic, it consumes the Sender and the remote
\* resolves with it; and a remote whose inner work finished does get to it.
C24_AtMostOneResult ==
    /\ [](\A t \in Tasks : sends[t] <= 1)
    /\ [](\A t \in Tasks : sends[t] = 1 => work[t] \in {"done", "panicked"})
    /\ [](\A t \in Tasks :
             (variant[t] \in RemoteVariants /\ work[t] \in {"done", "panicked"}) =>
                 \/ rpc[t] = "send" /\ sends[t] = 0 /\ txAlive[t]
                 \/ rpc[t] = "resolved" /\ sends[t] = 1 /\ ~txAlive[t])
    /\ [][\A t \in Tasks :
             Remote_poll_send(t) => /\ txAlive[t] /\ ~txAlive'[t]
                                    /\ rpc'[t] = "resolved"
                                    /\ sends'[t] = sends[t] + 1]_vars
    /\ \A t \in Tasks :
          (variant[t] \in RemoteVariants /\ work[t] \in {"done", "panicked"})
              ~> (sends[t] = 1 /\ rpc[t] = "resolved")

\* The one result of a unit of work that returned its value was sent to a
\* handle that is still held.
C24_Witness ==
    \E t \in Tasks : /\ variant[t] = "RemoteHandle"
                     /\ sends[t] = 1
                     /\ work[t] = "done"
                     /\ rpc[t] = "resolved"
                     /\ ~txAlive[t]
                     /\ hstate[t] = "held"
                     /\ slot[t] = OkMsg(val[t])

\* C25: the body runs once.  The inner unit of work of a Remote Pair is polled
\* only while it has not finished, so its body reaches its end, and performs
\* its side effect, at most once; when a poll of the handle returns the
\* output, the side effect has been performed exactly once.
C25_BodyRunsOnce ==
    /\ [][\A t \in Tasks :
             Remote_poll_inner(t) => work[t] \in {"new", "suspended"}]_vars
    /\ [](\A t \in Tasks : variant[t] \in RemoteVariants => completed[t] <= 1)
    /\ []((\E t \in Tasks : variant[t] \in RemoteVariants) => counter <= 1)
    /\ [](\A t \in Tasks :
             (variant[t] \in RemoteVariants /\ out[t].tag = "ready") =>
                 /\ out[t].v = val[t]
                 /\ completed[t] = 1
                 /\ counter = 1)

\* The unit of work returned the last value of Values, the awaited handle
\* yielded it and the marker of the body was set once.
C25_Witness ==
    \E t \in Tasks : /\ variant[t] = "RemoteHandle"
                     /\ val[t] = NumValues
                     /\ out[t] = Ready(NumValues)
                     /\ completed[t] = 1
                     /\ counter = 1
                     /\ sends[t] = 1

\* C26: the detachment flags are monotonic.  keep_running of a Remote Pair and
\* detached of a native variant are false when the spawn returns the handle;
\* a step that sets one of them is a step of detach; and no step of the
\* handle, of the remote or of the backend sets one of them back to false.
C26_FlagsMonotonic ==
    [][\A t \in Tasks :
          /\ (variant[t] = "none" /\ variant'[t] # "none") =>
                 ~keep_running'[t] /\ ~detached'[t]
          /\ (~keep_running[t] /\ keep_running'[t]) =>
                 JoinHandle_detach(t) /\ variant[t] \in RemoteVariants
          /\ (~detached[t] /\ detached'[t]) =>
                 JoinHandle_detach(t) /\ variant[t] \in FlagVariants
          /\ (keep_running[t] => keep_running'[t])
          /\ (detached[t] => detached'[t])]_vars

\* The flag of a detached pair is still set after the remote ran the work to
\* its end and resolved.
C26_Witness ==
    \E t \in Tasks : /\ variant[t] = "RemoteHandle"
                     /\ keep_running[t]
                     /\ how[t] = "detached"
                     /\ work[t] = "done"
                     /\ rpc[t] = "resolved"

\* C27: detach consumes the handle.  Once detach was called the handle can be
\* neither polled nor dropped by the caller nor detached again; the drop that
\* ends detach aborts nothing, so from then on the work is dropped only by
\* the backend's teardown; and a handle that was detached, dropped, or
\* returned its output is never again a live handle without an output.
C27_DetachConsumes ==
    /\ [](\A t \in Tasks :
             hstate[t] \in {"forgetting", "gone"} =>
                 /\ ~ENABLED JoinHandle_poll(t)
                 /\ ~ENABLED JoinHandle_drop(t)
                 /\ (hstate[t] = "gone" => ~ENABLED JoinHandle_detach(t)))
    /\ [](\A t \in Tasks :
             how[t] = "detached" =>
                 /\ ~aborted[t]
                 /\ (variant[t] \in RemoteVariants => keep_running[t]))
    /\ [][\A t \in Tasks :
             /\ JoinHandle_detach(t) => aborted'[t] = aborted[t] /\ work'[t] = work[t]
             /\ (how[t] = "detached" /\ work[t] # "dropped" /\ work'[t] = "dropped")
                    => BackendDiscard(t) \/ RuntimeShutdown(t)
             /\ (hstate[t] \in {"forgetting", "gone"} \/ nReady[t] >= 1)
                    => (hstate'[t] \in {"forgetting", "gone"} \/ nReady'[t] >= 1)]_vars

\* A tokio handle was detached before its task ran, and the task then ran the
\* work to its end.
C27_Witness ==
    \E t \in Tasks : /\ variant[t] = "Tokio"
                     /\ how[t] = "detached"
                     /\ detached[t]
                     /\ out[t] = NoPoll
                     /\ work[t] = "done"
                     /\ slot[t] = OkMsg(val[t])

\* C28: yield_now suspends exactly once.  On every backend that offers it, the
\* first poll of the future returned by yield_now is Pending and the poll
\* after it, at the next scheduling turn, is Ready.
C28_YieldSuspendsOnce ==
    [][\A t \in Tasks :
          YieldNow_poll(t) =>
              yld'[t].out = (IF yld[t].polls = 0 THEN "pending" ELSE "ready")]_vars

\* C29: fire-and-forget work is not cancelled by the adapter.  A spawn without
\* a handle returns Ok with the work scheduled on the backend and no
\* cancellation issued; the work is never cancelled afterwards: it stays
\* scheduled until the backend polls it, and it is never dropped unfinished.
C29_ForgetNotCancelled ==
    /\ [][\A t \in Tasks :
             Spawn_forget(t) => /\ spawnRes'[t] = "Ok"
                                /\ sched'[t]
                                /\ ~aborted'[t]
                                /\ work'[t] = "new"
                                /\ hstate'[t] = "none"]_vars
    /\ [](\A t \in Tasks :
             variant[t] # "none" =>
                 /\ ~aborted[t]
                 /\ work[t] # "dropped"
                 /\ slot[t].tag \notin {"cancelled", "aborted"}
                 /\ (work[t] = "new" => sched[t] /\ rpc[t] = "idle"))

\* A glommio task spawned without a handle ran the work to its end after a
\* suspension.
C29_Witness ==
    \E t \in Tasks : /\ variant[t] = "Glommio"
                     /\ hstate[t] = "none"
                     /\ spawnRes[t] = "Ok"
                     /\ susp[t] = 0
                     /\ work[t] = "done"
                     /\ completed[t] = 1
                     /\ counter = NumTasks

\* C30: the remote gives up only for a handle that is gone.  A poll of the
\* remote that resolves without a send does so in a state where the Receiver
\* was dropped and keep_running is false, that is, the handle was dropped
\* and not detached; so whenever the remote of a handle that is still alive
\* has resolved, it has sent its result, and a live handle that finds its
\* Sender gone with nothing sent lost its task to the backend, not to the
\* cancellation.
C30_GivesUpOnlyForGoneHandle ==
    /\ [][\A t \in Tasks :
             (variant[t] \in RemoteVariants /\ rpc[t] # "resolved"
                 /\ rpc'[t] = "resolved" /\ sends'[t] = 0) =>
                 /\ Remote_poll_load(t)
                 /\ ~rxAlive[t]
                 /\ ~keep_running[t]
                 /\ how[t] = "dropped"
                 /\ hstate[t] = "gone"]_vars
    /\ [](\A t \in Tasks :
             (variant[t] \in RemoteVariants /\ hstate[t] = "held"
                 /\ rpc[t] = "resolved") => sends[t] = 1)
    /\ [](\A t \in Tasks :
             (variant[t] \in RemoteVariants /\ hstate[t] = "held" /\ ~txAlive[t]
                 /\ sends[t] = 0) => rpc[t] = "dropped")

\* The remote of a dropped handle gave up before the work had started.
C30_Witness ==
    \E t \in Tasks : /\ variant[t] = "RemoteHandle"
                     /\ how[t] = "dropped"
                     /\ rpc[t] = "resolved"
                     /\ sends[t] = 0
                     /\ work[t] = "dropped"
                     /\ completed[t] = 0

\* C31: the guard assertions of JoinHandle::poll are unreachable.  Whenever
\* the caller can poll the handle (it holds it: neither detach nor drop has
\* consumed it), the Option of the RemoteHandle, AsyncGlobal and Glommio arms
\* is Some and the join cell of the AsyncStd arm does not hold Err(Aborted);
\* and no poll of the handle trips one of these guards.
C31_PollGuardsUnreachable ==
    /\ [](\A t \in Tasks : ENABLED JoinHandle_poll(t) => JoinHandle_poll_guard(t) = "")
    /\ [][\A t \in Tasks : JoinHandle_poll(t) => JoinHandle_poll_guard(t) = ""]_vars

\* The handle was polled while the work was pending, then detached: the
\* Option is empty, a poll would trip the guard, and nothing can poll the
\* handle any more.
C31_Witness ==
    /\ \E t \in Tasks :
          /\ variant[t] \in TaskVariants \cup RemoteVariants
          /\ out[t].tag = "pending"
          /\ how[t] = "detached"
          /\ ~some[t]
          /\ JoinHandle_poll_guard(t) # ""

\* C32: an awaited handle eventually resolves.  For a unit of work that
\* finishes and a handle that is kept and awaited, in every interleaving of
\* the steps of the handle's poll with the steps of the remote's send: once
\* the remote has resolved, a handle that is not being polled and has not
\* resolved has its awaiting task woken (no wake-up is lost); and the handle
\* eventually resolves, with the value of the unit of work or, if it
\* panicked, with the resumed panic.
C32_AwaitedHandleResolves ==
    /\ [](\A t \in Tasks :
            (rpc[t] = "resolved" /\ hstate[t] = "held" /\ jpc[t] = "idle"
             /\ out[t].tag \notin {"ready", "fault"}) => Awaiter_runs(t))
    /\ \A t \in Tasks :
          (hstate[t] = "held")
            ~> (out[t] = IF kind[t] = "value" THEN Ready(val[t]) ELSE Fault)

\* The remote sent its output and woke nobody, the handle's poll stored its
\* waker only after that (the waker is still in the channel), found the
\* channel complete at its second look, and returned the output.
C32_Witness ==
    \E t \in Tasks :
        /\ variant[t] \in RemoteVariants
        /\ rpc[t] = "resolved"
        /\ rxWaker[t]
        /\ ~awoken[t]
        /\ out[t] = Ready(val[t])

\* C33: a fault with no observer is discarded.  When the unit of work of a
\* Remote Pair panics after its handle was detached or dropped, the panic is
\* captured and the poll of the remote goes on to its send; the send fails,
\* leaves the channel as it was, the remote resolves, and the backend's
\* thread takes no fault; the handle, being gone, returns nothing any more.
C33_UnobservedFaultDiscarded ==
    /\ [][\A t \in Tasks :
            (Remote_poll_inner(t) /\ hstate[t] = "gone" /\ InnerPoll(t) = "panic")
              => (rpc'[t] = "send" /\ work'[t] = "panicked" /\ ~taskFault'[t])]_vars
    /\ [][\A t \in Tasks :
            (Remote_poll_send(t) /\ hstate[t] = "gone" /\ work[t] = "panicked")
              => (/\ Sender_send(t) = "Err"
                  /\ rpc'[t] = "resolved"
                  /\ slot'[t] = slot[t]
                  /\ ~taskFault'[t])]_vars
    /\ [][\A t \in Tasks : hstate[t] = "gone" => out'[t] = out[t]]_vars
    /\ [](\A t \in Tasks :
            (variant[t] \in RemoteVariants /\ work[t] = "panicked"
             /\ rpc[t] = "resolved" /\ slot[t] = Empty)
              => (hstate[t] = "gone" /\ ~taskFault[t] /\ out[t] # Fault))

\* The handle was dropped while the remote was past its cancellation check;
\* the unit of work then panicked, the send failed and the remote resolved.
C33_Witness ==
    \E t \in Tasks :
        /\ variant[t] \in RemoteVariants
        /\ how[t] = "dropped"
        /\ out[t] = NoPoll
        /\ work[t] = "panicked"
        /\ rpc[t] = "resolved"
        /\ slot[t] = Empty
        /\ ~taskFault[t]

C35_ExecAlwaysSome ==
    /\ [](hollow = 0)
    /\ [](\A exec \in TokioTp_execs : TokioTp_exec_unwrap(exec) = "runtime")
    /\ [](shutRes.tag = "Err" => shutRes.exec = "Some")
    /\ [](\A t \in Tasks : spawnRes[t] # "panic")
    /\ [][(shutdown_timeout \/ shutdown_background) =>
             IF shutRes'.tag = "Err"
               THEN clones' = clones /\ TokioTp_execs' = {"Some"}
               ELSE clones' = clones - 1]_vars

\* A shutdown was refused while another clone was alive, and a task was then
\* spawned, through the executor it returned or through the other clone.
C35_Witness ==
    /\ shutRes = ShutdownErr("Some")
    /\ clones >= 2
    /\ hollow = 0
    /\ \E t \in Tasks : spawnRes[t] = "Ok" /\ attempts[t] = 1 /\ rpc[t] = "idle"

C37_SpawnBlockingNeedsGuard ==
    /\ [][\A t \in Tasks, c \in Callers, k \in Kinds :
            Glommio_static_spawn_blocking(t, c, k) =>
                IF guards[c] = 0
                  THEN /\ spawnRes'[t] = "panic"
                       /\ threads' = threads
                       /\ thr'[t] = 0
                       /\ hstate'[t] = "none"
                       /\ work'[t] = "dropped"
                  ELSE /\ spawnRes'[t] = "Ok"
                       /\ threads' = threads + 1
                       /\ thr'[t] = threads'
                       /\ hstate'[t] = "held"
                       /\ work'[t] = "new"]_vars
    /\ [](\A t \in Tasks :
            spawnRes[t] = "panic"
              => (/\ work[t] = "dropped" /\ completed[t] = 0 /\ thr[t] = 0
                  /\ hstate[t] = "none" /\ out[t] = NoPoll))
    /\ [](threads = Cardinality({t \in Tasks : spawnRes[t] = "Ok"}))

\* A call made without a guard panicked and left nothing behind; a call made
\* under a guard started a thread, its closure ran and the handle returned
\* the result.
C37_Witness ==
    \E t, u \in Tasks :
        /\ spawnRes[t] = "panic" /\ thr[t] = 0 /\ work[t] = "dropped"
        /\ spawnRes[u] = "Ok" /\ thr[u] = 1 /\ threads = 1
        /\ work[u] = "done" /\ out[u] = Ready(val[u])

\* C7: detached work completes.  With every unit of work spawned and every
\* handle detached, the counter eventually equals the number of units, and it
\* never exceeds it.
C7_DetachedWorkCompletes ==
    /\ [](counter <= NumTasks)
    /\ (\A t \in Tasks : how[t] = "detached") ~> (counter = NumTasks)

C7_Witness ==
    /\ \A t \in Tasks : how[t] = "detached" /\ completed[t] = 1
    /\ \E t \in Tasks : variant[t] = "RemoteHandle" /\ keep_running[t] /\ ~rxAlive[t]
    /\ counter = NumTasks

\* C8: drop wakes the remote.  Dropping a Remote Pair handle whose remote is
\* suspended wakes the remote, and after the drop the remote eventually
\* resolves (or is discarded by the backend), whatever the inner work does.
C8_DropWakesRemote ==
    /\ [][\A t \in Tasks :
             (JoinHandle_drop(t) /\ variant[t] \in RemoteVariants
                /\ rpc[t] = "idle" /\ work[t] = "suspended")
             => sched'[t]]_vars
    /\ \A t \in Tasks :
          (variant[t] \in RemoteVariants /\ how[t] = "dropped")
          ~> (rpc[t] \in {"resolved", "dropped"})

C8_Witness ==
    \E t \in Tasks : /\ variant[t] = "RemoteHandle"
                     /\ kind[t] = "never"
                     /\ how[t] = "dropped"
                     /\ txWaker[t]
                     /\ rpc[t] = "resolved"

====
